---------------------------- MODULE Spec2Model ----------------------------
(***************************************************************************)
(* A model of the WWOZ artist discovery pipeline and its maintenance       *)
(* scripts (artist_discovery_pipeline.py, backfill_musicbrainz_data.py,    *)
(* deduplicate_artist_instruments.py).                                     *)
(*                                                                         *)
(* Text is modelled as a sequence of one-character strings, so that        *)
(* lower(), strip(), split(), replace(), the regular-expression character  *)
(* classes and the substring test `a in b` are computed as Python computes *)
(* them.  In the archive parser a line is a sequence of tokens: "|", " ",  *)
(* "\n" and cell texts that hold neither a pipe nor a newline and neither  *)
(* start nor end with white space.  The status marker written with a check *)
(* mark emoji in the source is spelled "[ok] Found" here, the cross mark   *)
(* "[x] Not Found".                                                        *)
(***************************************************************************)
EXTENDS Integers, Sequences, FiniteSets, TLC

VARIABLES
    call,           \* the last call of a text utility: [fn, arg.., ret]
    mb,             \* the encyclopedia matcher: inputs, responses, results
    bf,             \* the backfill script: flags, cards, statistics
    pl              \* the pipeline: flags, cards, ledger, statistics, position

vars == <<call, mb, bf, pl>>

(***************************************************************************)
(* Bounds of the model.                                                    *)
(***************************************************************************)
MaxLines == 2
MaxItems == 3
MaxResearch == 2
MaxEncyclopedia == 2
MaxCandidates == 2
MaxPreset == 1
MaxFetched == 1
MaxArtists == 2
MaxRetries == 2
MaxCards == 2
MaxRelations == 2
MaxRuns == 2
MaxLimit == 1

(***************************************************************************)
(* Program constants.                                                      *)
(***************************************************************************)
MAX_FILENAME_LEN == 200

(***************************************************************************)
(* Characters and strings.                                                 *)
(***************************************************************************)
UpperLetters == <<"A","B","C","D","E","F","G","H","I","J","K","L","M",
                  "N","O","P","Q","R","S","T","U","V","W","X","Y","Z">>

LowerLetters == <<"a","b","c","d","e","f","g","h","i","j","k","l","m",
                  "n","o","p","q","r","s","t","u","v","w","x","y","z">>

Digits == <<"0","1","2","3","4","5","6","7","8","9">>

\* The characters of the model in code point order (what sorted() compares).
CodePoints ==
    <<" ", "\"", "&", "'", "*", ",", "-", ".", "/">> \o Digits
    \o <<":", "<", ">", "?">> \o UpperLetters \o <<"\\", "_">>
    \o LowerLetters \o <<"|">>

Range(s) == {s[i] : i \in DOMAIN s}

ord(c) == CHOOSE i \in DOMAIN CodePoints : CodePoints[i] = c

\* str.lower() on one character
lower_char(c) ==
    IF c \in Range(UpperLetters)
    THEN LowerLetters[CHOOSE i \in DOMAIN UpperLetters : UpperLetters[i] = c]
    ELSE c

\* str.lower()
lower(s) == [i \in DOMAIN s |-> lower_char(s[i])]

IsSpace(c) == c \in {" ", "\t", "\n", "\r"}

SetMin(S) == CHOOSE x \in S : \A y \in S : x <= y

SetMax(S) == CHOOSE x \in S : \A y \in S : x >= y

\* s.strip(chars): the longest slice that neither starts nor ends in chars
strip_chars(s, chars) ==
    LET keep == {i \in DOMAIN s : s[i] \notin chars}
    IN  IF keep = {} THEN <<>> ELSE SubSeq(s, SetMin(keep), SetMax(keep))

\* str.strip()
strip(s) == strip_chars(s, {" ", "\t", "\n", "\r"})

\* str.replace(old, new) for a one-character old and a string new
RECURSIVE replace(_, _, _)
replace(s, old, new) ==
    IF s = <<>> THEN <<>>
    ELSE (IF Head(s) = old THEN new ELSE <<Head(s)>>) \o replace(Tail(s), old, new)

\* re.sub(r'[chars]', '', s)
remove_chars(s, chars) == SelectSeq(s, LAMBDA c : c \notin chars)

\* needle in hay (Python's substring test; the empty string is in every string)
contains(hay, needle) ==
    \E i \in 0..(Len(hay) - Len(needle)) : SubSeq(hay, i + 1, i + Len(needle)) = needle

DASHES == <<"-","-","-">>

\* s[:s.find('---')]: the text before the first "---", s itself when it has none
before_dashes(s) ==
    IF contains(s, DASHES)
    THEN SubSeq(s, 1, SetMin({i \in 0..(Len(s) - 3) : SubSeq(s, i + 1, i + 3) = DASHES}))
    ELSE s

\* str.split(sep) for a one-character sep: empty pieces are kept
RECURSIVE split(_, _)
split(s, sep) ==
    IF \A i \in DOMAIN s : s[i] # sep THEN <<s>>
    ELSE LET k == SetMin({i \in DOMAIN s : s[i] = sep})
         IN  <<SubSeq(s, 1, k - 1)>> \o split(SubSeq(s, k + 1, Len(s)), sep)

\* str.split(): split on runs of white space, no empty pieces
words(s) ==
    LET spaced == [i \in DOMAIN s |-> IF IsSpace(s[i]) THEN " " ELSE s[i]]
    IN  SelectSeq(split(spaced, " "), LAMBDA w : w # <<>>)

\* Python's < on strings: lexicographic by code point
RECURSIVE str_less(_, _)
str_less(a, b) ==
    IF b = <<>> THEN FALSE
    ELSE IF a = <<>> THEN TRUE
    ELSE IF Head(a) # Head(b) THEN ord(Head(a)) < ord(Head(b))
    ELSE str_less(Tail(a), Tail(b))

\* All sequences over S of length at most n
SeqsUpTo(S, n) == UNION {[1..k -> S] : k \in 0..n}

(***************************************************************************)
(* sanitize_filename (pipeline), lines 935-959.                            *)
(***************************************************************************)
\* [<>:"/\\|?*]
ReservedChars == {"<", ">", ":", "\"", "/", "\\", "|", "?", "*"}

\* \w
IsWordChar(c) ==
    c \in Range(UpperLetters) \cup Range(LowerLetters) \cup Range(Digits) \cup {"_"}

\* Each step is applied to the value of the step before it (the one element
\* of the set before it).
sanitize_filename(name) ==
    LET lowered == {lower(name)}
        underscored == {replace(s, " ", <<"_">>) : s \in lowered}
        unreserved == {remove_chars(s, ReservedChars) : s \in underscored}
        spelled == {replace(s, "&", <<"a", "n", "d">>) : s \in unreserved}
        cleaned == {SelectSeq(s, LAMBDA c : IsWordChar(c) \/ c \in {"-", "_", "."}) :
                       s \in spelled}
        truncated == {IF Len(s) > MAX_FILENAME_LEN THEN SubSeq(s, 1, MAX_FILENAME_LEN)
                      ELSE s : s \in cleaned}
        stripped == {strip_chars(s, {"."}) : s \in truncated}
    IN  CHOOSE sanitized \in stripped : TRUE

(***************************************************************************)
(* deduplicate_collaborators (pipeline), lines 705-748.                    *)
(***************************************************************************)
\* the local function normalize
normalize(name) == remove_chars(remove_chars(strip(lower(name)), {"."}), {","})

\* the entry appended for an encyclopedia name
musicbrainz_entry(mb_name) ==
    [name |-> mb_name, context |-> "Collaborated on recordings",
     specific_works |-> "", time_period |-> "", source |-> "musicbrainz"]

\* first loop: the research entries that have a name, and their normalized names
RECURSIVE add_perplexity_collaborators(_, _)
add_perplexity_collaborators(perplexity_collaborators, acc) ==
    IF perplexity_collaborators = <<>> THEN acc
    ELSE LET collab == Head(perplexity_collaborators)
             next == IF collab.name # <<>>
                     THEN [names |-> acc.names \cup {normalize(collab.name)},
                           result |-> Append(acc.result, collab)]
                     ELSE acc
         IN  add_perplexity_collaborators(Tail(perplexity_collaborators), next)

\* the second loop comparing the names as written, not their normalized forms
RECURSIVE add_musicbrainz_collaborators_raw(_, _)
add_musicbrainz_collaborators_raw(mb_collaborators, acc) ==
    IF mb_collaborators = <<>> THEN acc
    ELSE LET mb_name == Head(mb_collaborators)
             next == IF mb_name \notin acc.names
                     THEN [names |-> acc.names \cup {mb_name},
                           result |-> Append(acc.result, musicbrainz_entry(mb_name))]
                     ELSE acc
         IN  add_musicbrainz_collaborators_raw(Tail(mb_collaborators), next)

\* second loop: the encyclopedia names not seen so far
RECURSIVE add_musicbrainz_collaborators(_, _)
add_musicbrainz_collaborators(mb_collaborators, acc) ==
    IF mb_collaborators = <<>> THEN acc
    ELSE LET mb_name == Head(mb_collaborators)
             normalized == normalize(mb_name)
             next == IF normalized \notin acc.names
                     THEN [names |-> acc.names \cup {normalized},
                           result |-> Append(acc.result, musicbrainz_entry(mb_name))]
                     ELSE acc
         IN  add_musicbrainz_collaborators(Tail(mb_collaborators), next)

deduplicate_collaborators(mb_collaborators, perplexity_collaborators) ==
    add_musicbrainz_collaborators(
        mb_collaborators,
        add_perplexity_collaborators(perplexity_collaborators,
                                     [names |-> {}, result |-> <<>>])).result

(***************************************************************************)
(* parse_archive (pipeline), lines 899-933.                                *)
(***************************************************************************)
FOUND == <<"[ok] Found">>

\* the loop body without the test of the status column
parse_line_any_status(found_artists, raw) ==
    LET line == strip(raw)
    IN  IF line = <<>> THEN found_artists
        ELSE IF Head(line) = "|" /\ contains(Tail(line), <<"|">>)
        THEN LET columns == [i \in DOMAIN split(line, "|") |-> strip(split(line, "|")[i])]
             IN  IF Len(columns) >= 9 /\ columns[2] \notin {<<"Time">>, <<":----">>, <<>>}
                 THEN LET artist == strip(columns[3])
                      IN  IF artist # <<>> THEN Append(found_artists, artist)
                          ELSE found_artists
                 ELSE found_artists
        ELSE found_artists

\* the body of the loop over the lines: the names found so far, and one line
parse_line(found_artists, raw) ==
    LET line == strip(raw)
    IN  IF line = <<>> THEN found_artists
        ELSE IF Head(line) = "|" /\ contains(Tail(line), <<"|">>)
        THEN LET columns == [i \in DOMAIN split(line, "|") |-> strip(split(line, "|")[i])]
             IN  IF Len(columns) >= 9 /\ columns[2] \notin {<<"Time">>, <<":----">>, <<>>}
                 THEN LET artist == strip(columns[3])
                          status == strip(columns[9])
                      IN  IF status = FOUND /\ artist # <<>>
                          THEN Append(found_artists, artist)
                          ELSE found_artists
                 ELSE found_artists
        ELSE found_artists

RECURSIVE parse_lines(_, _)
parse_lines(found_artists, lines) ==
    IF lines = <<>> THEN found_artists
    ELSE parse_lines(parse_line(found_artists, Head(lines)), Tail(lines))

\* file: [readable, content]; an unreadable file raises in open() and yields []
parse_archive(file) ==
    IF file.readable THEN parse_lines(<<>>, split(file.content, "\n")) ELSE <<>>

(***************************************************************************)
(* deduplicate_list (instrument deduplicator), lines 105-122.              *)
(***************************************************************************)
\* the loop keeping the last occurrence of a repeated item instead of the first
RECURSIVE dedup_loop_keep_last(_, _, _, _)
dedup_loop_keep_last(items, seen, result, duplicates) ==
    IF items = <<>> THEN <<result, duplicates>>
    ELSE IF Head(items) \notin Range(Tail(items))
    THEN dedup_loop_keep_last(Tail(items), seen, Append(result, Head(items)), duplicates)
    ELSE dedup_loop_keep_last(Tail(items), seen, result, duplicates + 1)

RECURSIVE dedup_loop(_, _, _, _)
dedup_loop(items, seen, result, duplicates) ==
    IF items = <<>> THEN <<result, duplicates>>
    ELSE IF Head(items) \notin seen
    THEN dedup_loop(Tail(items), seen \cup {Head(items)}, Append(result, Head(items)), duplicates)
    ELSE dedup_loop(Tail(items), seen, result, duplicates + 1)

deduplicate_list(items) == dedup_loop(items, {}, <<>>, 0)

(***************************************************************************)
(* The encyclopedia matcher (pipeline), lines 311-465.                     *)
(* A candidate of the search response is a record                          *)
(*   [id, name, ext_score, disambiguation, type].                          *)
(***************************************************************************)
MUSICBRAINZ_MIN_CONFIDENCE == 80

None == [found |-> FALSE]

IntMin(a, b) == IF a < b THEN a ELSE b

\* int(x) for x = hundredths / 100: truncation toward zero
int_hundredths(hundredths) ==
    IF hundredths >= 0 THEN hundredths \div 100 ELSE -((-hundredths) \div 100)

\* the set built by genre_keywords.update(genre.lower().split()) over the genres
genre_keywords(spotify_genres) ==
    UNION {Range(words(lower(spotify_genres[i]))) : i \in DOMAIN spotify_genres}

\* the name-matching points with the names compared as written
name_points_case_sensitive(artist, search_name) ==
    LET artist_name == strip(artist.name)
        search_name_norm == strip(search_name)
    IN  IF artist_name = search_name_norm THEN 40
        ELSE IF contains(search_name_norm, artist_name) \/ contains(artist_name, search_name_norm)
        THEN 20
        ELSE 0

\* the name-matching points, lines 337-349
name_points(artist, search_name) ==
    LET artist_name == strip(lower(artist.name))
        search_name_norm == strip(lower(search_name))
    IN  IF artist_name = search_name_norm THEN 40
        ELSE IF contains(search_name_norm, artist_name) \/ contains(artist_name, search_name_norm)
        THEN 20
        ELSE 0

\* the genre-validation points, lines 351-362
genre_points(artist, spotify_genres) ==
    IF spotify_genres # <<>>
    THEN LET disambiguation == lower(artist.disambiguation)
         IN  IF disambiguation # <<>>
             THEN LET matches == Cardinality({k \in genre_keywords(spotify_genres) :
                                                 contains(disambiguation, k)})
                  IN  IF matches > 0 THEN IntMin(matches * 5, 20) ELSE 0
             ELSE 0
    ELSE 0

\* the confidence rounded to the nearest integer instead of truncated
calculate_match_confidence_rounded(artist, search_name, spotify_genres) ==
    LET mb_score == artist.ext_score
        hundredths == mb_score * 40
                      + 100 * name_points(artist, search_name)
                      + 100 * genre_points(artist, spotify_genres)
    IN  IntMin(int_hundredths(hundredths + 50), 100)

\* confidence is kept in hundredths until int() is applied:
\* (mb_score / 100) * 40 + name points + genre points
calculate_match_confidence(artist, search_name, spotify_genres) ==
    LET mb_score == artist.ext_score
        hundredths == mb_score * 40
                      + 100 * name_points(artist, search_name)
                      + 100 * genre_points(artist, spotify_genres)
    IN  IntMin(int_hundredths(hundredths), 100)

\* the relevance score of phase 2, lines 415-430
relevance_score(artist, keywords) ==
    LET disambiguation == lower(artist.disambiguation)
        artist_type == lower(artist.type)
    IN  2 * Cardinality({k \in keywords : contains(disambiguation, k)})
        + (IF disambiguation # <<>> THEN 1 ELSE 0)
        + (IF artist_type \in {<<"p","e","r","s","o","n">>, <<"g","r","o","u","p">>,
                               <<"b","a","n","d">>} THEN 1 ELSE 0)

\* the sort with equal scores put in reverse order
RECURSIVE insert_by_score_unstable(_, _)
insert_by_score_unstable(sorted, item) ==
    IF sorted = <<>> THEN <<item>>
    ELSE IF Head(sorted).score > item.score
    THEN <<Head(sorted)>> \o insert_by_score_unstable(Tail(sorted), item)
    ELSE <<item>> \o sorted

\* list.sort(key=score, reverse=True): stable, so equal scores keep their order
RECURSIVE insert_by_score(_, _)
insert_by_score(sorted, item) ==
    IF sorted = <<>> THEN <<item>>
    ELSE IF Head(sorted).score >= item.score
    THEN <<Head(sorted)>> \o insert_by_score(Tail(sorted), item)
    ELSE <<item>> \o sorted

RECURSIVE sort_by_score(_)
sort_by_score(scored) ==
    IF scored = <<>> THEN <<>>
    ELSE insert_by_score(sort_by_score(SubSeq(scored, 1, Len(scored) - 1)),
                         scored[Len(scored)])

\* phases 1 to 3 of find_best_musicbrainz_match, lines 393-446: the candidate
\* whose confidence is then computed
select_best_match(artist_list, artist_name, spotify_genres) ==
    LET normalized_search == strip(lower(artist_name))
        exact_matches == SelectSeq(artist_list,
                                   LAMBDA a : strip(lower(a.name)) = normalized_search)
        candidates == IF exact_matches # <<>> THEN exact_matches ELSE artist_list
    IN  IF Len(candidates) > 1 /\ spotify_genres # <<>>
        THEN LET keywords == genre_keywords(spotify_genres)
                 scored_candidates ==
                     sort_by_score([i \in DOMAIN candidates |->
                         [score |-> relevance_score(candidates[i], keywords),
                          artist |-> candidates[i]]])
             IN  IF scored_candidates[1].score > 0
                 THEN scored_candidates[1].artist
                 ELSE candidates[1]
        ELSE candidates[1]

\* phase 4 without the comparison against the threshold
validate_confidence_unchecked(best_match, confidence, min_confidence) ==
    [found |-> TRUE, artist |-> best_match, confidence |-> confidence]

\* phase 4, lines 448-461: below the threshold nothing is returned
validate_confidence(best_match, confidence, min_confidence) ==
    IF confidence < min_confidence THEN None
    ELSE [found |-> TRUE, artist |-> best_match, confidence |-> confidence]

\* response: [error, artist_list], the answer of search_artists (error: it raised)
find_best_musicbrainz_match(response, artist_name, spotify_genres, min_confidence) ==
    IF response.error THEN None
    ELSE IF response.artist_list = <<>> THEN None
    ELSE LET best_match == select_best_match(response.artist_list, artist_name, spotify_genres)
             confidence == calculate_match_confidence(best_match, artist_name, spotify_genres)
         IN  validate_confidence(best_match, confidence, min_confidence)

(***************************************************************************)
(* The same matcher in the backfill script, lines 143-292.                 *)
(***************************************************************************)
backfill_calculate_match_confidence(artist, search_name, spotify_genres) ==
    LET mb_score == artist.ext_score
        artist_name == strip(lower(artist.name))
        search_name_norm == strip(lower(search_name))
        name_part == IF artist_name = search_name_norm THEN 40
                     ELSE IF contains(search_name_norm, artist_name)
                             \/ contains(artist_name, search_name_norm)
                     THEN 20
                     ELSE 0
        disambiguation == lower(artist.disambiguation)
        matches == Cardinality({k \in genre_keywords(spotify_genres) :
                                   contains(disambiguation, k)})
        genre_part == IF spotify_genres # <<>> /\ disambiguation # <<>> /\ matches > 0
                      THEN IntMin(matches * 5, 20)
                      ELSE 0
    IN  IntMin(int_hundredths(mb_score * 40 + 100 * name_part + 100 * genre_part), 100)

backfill_select_best_match(artist_list, artist_name, spotify_genres) ==
    LET normalized_search == strip(lower(artist_name))
        exact_matches == SelectSeq(artist_list,
                                   LAMBDA a : strip(lower(a.name)) = normalized_search)
        candidates == IF exact_matches # <<>> THEN exact_matches ELSE artist_list
    IN  IF Len(candidates) > 1 /\ spotify_genres # <<>>
        THEN LET keywords == genre_keywords(spotify_genres)
                 scored_candidates ==
                     sort_by_score([i \in DOMAIN candidates |->
                         [score |-> relevance_score(candidates[i], keywords),
                          artist |-> candidates[i]]])
             IN  IF scored_candidates[1].score > 0
                 THEN scored_candidates[1].artist
                 ELSE candidates[1]
        ELSE candidates[1]

backfill_find_best_musicbrainz_match(response, artist_name, spotify_genres, min_confidence) ==
    IF response.error THEN None
    ELSE IF response.artist_list = <<>> THEN None
    ELSE LET best_match == backfill_select_best_match(response.artist_list, artist_name,
                                                      spotify_genres)
             confidence == backfill_calculate_match_confidence(best_match, artist_name,
                                                               spotify_genres)
         IN  IF confidence < min_confidence THEN None
             ELSE [found |-> TRUE, artist |-> best_match, confidence |-> confidence]

(***************************************************************************)
(* get_musicbrainz_metadata, pipeline lines 467-604, backfill lines        *)
(* 294-421: the match, the check of the id, the detail request.            *)
(* detail: [error, type, begin, end], the answer of get_artist_by_id.      *)
(***************************************************************************)
PERSON == <<"P","e","r","s","o","n">>

GROUP == <<"G","r","o","u","p">>

\* metadata in which every life-span end is a death date
get_musicbrainz_metadata_any_type(match_result, detail) ==
    IF ~match_result.found THEN None
    ELSE IF match_result.artist.id = "" THEN None
    ELSE IF detail.error THEN None
    ELSE [found |-> TRUE,
          mbid |-> match_result.artist.id,
          artist_type |-> detail.type,
          birth_date |-> detail.begin,
          death_date |-> detail.end]

get_musicbrainz_metadata(match_result, detail) ==
    IF ~match_result.found THEN None
    ELSE IF match_result.artist.id = "" THEN None
    ELSE IF detail.error THEN None
    ELSE LET artist_type == lower(detail.type)
         IN  [found |-> TRUE,
              mbid |-> match_result.artist.id,
              artist_type |-> detail.type,
              birth_date |-> detail.begin,
              death_date |-> IF detail.end # "" /\ artist_type = lower(PERSON)
                             THEN detail.end ELSE ""]

backfill_get_musicbrainz_metadata(match_result, detail) ==
    IF ~match_result.found THEN None
    ELSE IF match_result.artist.id = "" THEN None
    ELSE IF detail.error THEN None
    ELSE LET artist_type == lower(detail.type)
         IN  [found |-> TRUE,
              mbid |-> match_result.artist.id,
              artist_type |-> detail.type,
              birth_date |-> detail.begin,
              death_date |-> IF detail.end # "" /\ artist_type = lower(PERSON)
                             THEN detail.end ELSE ""]

(***************************************************************************)
(* The matcher run on one artist: search names, genre hints and responses  *)
(* of the encyclopedia service drawn from bounded sets.                    *)
(***************************************************************************)
SearchNames == {<<"A","b">>, <<"a">>}

GenreHints ==
    {<<>>,
     <<<<"j">>>>,
     <<<<"J"," ","k">>, <<"k"," ","l">>>>,
     <<<<"j"," ","k">>, <<"l"," ","m"," ","n">>>>}

\* one candidate alone in the response: every rank score, also out of 0..100
CandidateScores == {-100, -1, 0, 50, 99, 100, 250}

CandidateNames == {<<"a","b">>, <<"A","B"," ">>, <<"a">>, <<"a","b","c">>, <<"c">>, <<>>}

Disambiguations ==
    {<<>>, <<"j">>, <<"K","x">>, <<"j"," ","k"," ","l"," ","m","n">>, <<"x">>}

SingleCandidates ==
    [id : {"", "mbid-1"}, name : CandidateNames, ext_score : CandidateScores,
     disambiguation : Disambiguations, type : {<<>>, PERSON, <<"O","t","h","e","r">>}]

\* candidates of the longer responses
RankedCandidates ==
    [id : {"mbid-2"}, name : {<<"a","b">>, <<"a","b","c">>}, ext_score : {100},
     disambiguation : {<<>>, <<"j">>, <<"K","x">>}, type : {<<>>, GROUP}]

SearchResponses ==
    {[error |-> TRUE, artist_list |-> <<>>], [error |-> FALSE, artist_list |-> <<>>]}
    \cup {[error |-> FALSE, artist_list |-> <<c>>] : c \in SingleCandidates}
    \cup {[error |-> FALSE, artist_list |-> l] :
             l \in UNION {[1..n -> RankedCandidates] : n \in 2..MaxCandidates}}

DetailResponses ==
    {[error |-> TRUE, type |-> <<>>, begin |-> "", end |-> ""]}
    \cup [error : {FALSE}, type : {PERSON, GROUP, <<>>}, begin : {"1918"}, end : {"", "1980"}]

Tools == {"pipeline", "backfill"}

\* find_best_musicbrainz_match: the search request and the choice of the match
FindBestMatch ==
    /\ mb.pc = "search"
    /\ \E response \in SearchResponses :
          LET chosen == IF mb.tool = "pipeline"
                        THEN select_best_match(response.artist_list, mb.artist_name,
                                               mb.spotify_genres)
                        ELSE backfill_select_best_match(response.artist_list, mb.artist_name,
                                                        mb.spotify_genres)
              scored == response.artist_list # <<>>
          IN  mb' = [mb EXCEPT
                  !.pc = "matched",
                  !.artist_list = response.artist_list,
                  !.best_match = IF scored THEN [found |-> TRUE, artist |-> chosen] ELSE None,
                  !.confidence =
                      IF ~scored THEN 0
                      ELSE IF mb.tool = "pipeline"
                      THEN calculate_match_confidence(chosen, mb.artist_name, mb.spotify_genres)
                      ELSE backfill_calculate_match_confidence(chosen, mb.artist_name,
                                                               mb.spotify_genres),
                  !.match_result =
                      IF mb.tool = "pipeline"
                      THEN find_best_musicbrainz_match(response, mb.artist_name,
                               mb.spotify_genres, MUSICBRAINZ_MIN_CONFIDENCE)
                      ELSE backfill_find_best_musicbrainz_match(response, mb.artist_name,
                               mb.spotify_genres, MUSICBRAINZ_MIN_CONFIDENCE)]
    /\ UNCHANGED <<call, bf, pl>>

\* no match, or a match without an id: no metadata, no detail request
ReturnNoMetadata ==
    /\ mb.pc = "matched"
    /\ IF mb.match_result.found THEN mb.match_result.artist.id = "" ELSE TRUE
    /\ mb' = [mb EXCEPT !.pc = "done", !.metadata = None]
    /\ UNCHANGED <<call, bf, pl>>

\* the detail request of an accepted match and the metadata built from it
GetArtistById ==
    /\ mb.pc = "matched"
    /\ mb.match_result.found
    /\ mb.match_result.artist.id # ""
    /\ \E detail \in DetailResponses :
          mb' = [mb EXCEPT
                  !.pc = "done",
                  !.detail = detail,
                  !.metadata = IF mb.tool = "pipeline"
                               THEN get_musicbrainz_metadata(mb.match_result, detail)
                               ELSE backfill_get_musicbrainz_metadata(mb.match_result, detail)]
    /\ UNCHANGED <<call, bf, pl>>

MatchInit ==
    /\ \E tool \in Tools, name \in SearchNames, genres \in GenreHints :
          mb = [tool |-> tool, artist_name |-> name, spotify_genres |-> genres,
                pc |-> "search", artist_list |-> <<>>, best_match |-> None,
                confidence |-> 0, match_result |-> None,
                detail |-> [error |-> TRUE, type |-> <<>>, begin |-> "", end |-> ""],
                metadata |-> None]
    /\ call = [fn |-> "none"]
    /\ bf = [state |-> "unused"]
    /\ pl = [state |-> "unused"]

MatchNext ==
    \/ FindBestMatch
    \/ ReturnNoMetadata
    \/ GetArtistById

MatchSpec == MatchInit /\ [][MatchNext]_vars

(***************************************************************************)
(* Claims about the matcher (checked under MatchSpec).  mb.best_match is   *)
(* the candidate whose confidence was computed, mb.confidence that         *)
(* confidence, whether or not the match was accepted.                      *)
(***************************************************************************)
\* C1: find_best_musicbrainz_match (pipeline and backfill) returns none or a pair
\* (candidate, confidence) with confidence >= 80; get_musicbrainz_metadata never
\* returns metadata for a candidate whose computed confidence is below 80.
C1_AcceptedAtLeast80 ==
    /\ mb.match_result.found
          => /\ mb.match_result.confidence >= 80
             /\ mb.match_result.confidence = mb.confidence
             /\ mb.best_match.found
             /\ mb.match_result.artist = mb.best_match.artist
    /\ mb.metadata.found => (mb.best_match.found /\ mb.confidence >= 80)

\* a match of confidence exactly 80 is accepted and its metadata returned
C1_Witness ==
    /\ mb.pc = "done"
    /\ mb.match_result.found
    /\ mb.match_result.confidence = 80
    /\ mb.metadata.found

\* C2: for every candidate (any integer ext:score), search name and genre hints,
\* calculate_match_confidence returns an integer c with 0 <= c <= 100.
C2_ConfidenceInRange ==
    mb.best_match.found => (0 <= mb.confidence /\ mb.confidence <= 100)

\* n of the reference formula
RefNamePoints(candidate_name, search_name) ==
    LET a == strip(lower(candidate_name))
        b == strip(lower(search_name))
    IN  CASE a = b -> 40
          [] a # b /\ (contains(a, b) \/ contains(b, a)) -> 20
          [] OTHER -> 0

\* g of the reference formula
RefGenrePoints(disambiguation, hints) ==
    IF hints = <<>> \/ disambiguation = <<>> THEN 0
    ELSE LET hint_words == UNION {Range(words(lower(hints[i]))) : i \in DOMAIN hints}
             found == {w \in hint_words : contains(lower(disambiguation), w)}
         IN  IF 5 * Cardinality(found) < 20 THEN 5 * Cardinality(found) ELSE 20

\* 100 * (40 * score / 100 + n + g) for the scored candidate
RefHundredths ==
    40 * mb.best_match.artist.ext_score
    + 100 * RefNamePoints(mb.best_match.artist.name, mb.artist_name)
    + 100 * RefGenrePoints(mb.best_match.artist.disambiguation, mb.spotify_genres)

\* C3 (as claimed): calculate_match_confidence = min(100, floor(40*score/100 + n + g)),
\* n = 40 for names equal after lowercasing and trimming, 20 for a substring,
\* else 0, g = min(20, 5 * distinct hint words found in the disambiguation).
C3_FloorFormula ==
    mb.best_match.found
    => mb.confidence = (IF RefHundredths \div 100 < 100 THEN RefHundredths \div 100 ELSE 100)

\* x truncated toward zero, x = hundredths / 100
TruncHundredths(h) == IF h >= 0 THEN h \div 100 ELSE 0 - ((0 - h) \div 100)

\* C3 (amended): calculate_match_confidence = min(100, int(40*score/100 + n + g))
\* with int truncating toward zero: the floor of the sum when the sum is not
\* negative (so for every ext:score >= 0), its ceiling when it is negative;
\* n and g as claimed, an exact match always contributing 40.
C3_TruncFormula ==
    mb.best_match.found
    => /\ mb.confidence = (IF TruncHundredths(RefHundredths) < 100
                           THEN TruncHundredths(RefHundredths) ELSE 100)
       /\ RefHundredths >= 0
             => mb.confidence = (IF RefHundredths \div 100 < 100
                                 THEN RefHundredths \div 100 ELSE 100)

\* an exact match up to case and blanks, rank score 99, no hints: 39.6 + 40 -> 79
C3_Witness ==
    /\ mb.best_match.found
    /\ mb.best_match.artist.name = <<"A","B"," ">>
    /\ mb.artist_name = <<"A","b">>
    /\ mb.best_match.artist.ext_score = 99
    /\ mb.spotify_genres = <<>>
    /\ mb.confidence = 79

(***************************************************************************)
(* The backfill script: needs_musicbrainz_enrichment, lines 125-141,       *)
(* merge_musicbrainz_into_card, lines 507-577, process_card, lines         *)
(* 774-819.  A front matter is a function from field names to values; a    *)
(* value is a tuple of strings, <<>> for a field that is absent or empty.  *)
(* The key musicbrainz of the mapping external_urls is the field           *)
(* "external_urls.musicbrainz".  The markdown body of a card is not        *)
(* modelled.  A card of the directory holds the front matter that was      *)
(* dumped to its file; parse_card gives the front matter read from it.     *)
(***************************************************************************)
\* fields the research and catalog stages of the pipeline write
ResearchFields == {"title", "genres", "enhancement_provider", "external_urls.spotify"}

\* fields copied from the encyclopedia metadata only when the card has none
AdditiveFields ==
    {"birth_date", "death_date", "gender", "artist_type", "disambiguation",
     "instruments", "aliases", "tags", "members", "original_members", "associated_acts"}

IdFields == {"musicbrainz_id", "external_urls.musicbrainz"}

Timestamps == {"last_updated", "musicbrainz_enriched_at"}

FrontMatterFields ==
    ResearchFields \cup AdditiveFields \cup IdFields \cup {"origin", "birth_place"}
    \cup Timestamps

\* the keys of the metadata returned by get_musicbrainz_metadata
MetadataFields == AdditiveFields \cup {"mbid", "origin"}

\* 'person' in artist_type.lower(), on the type values of the model
is_person_type(value) == value \in {<<"Person">>, <<"person">>}

musicbrainz_url(mbid) == <<"https://musicbrainz.org/artist/">> \o mbid

\* yaml.dump (line 575, and line 1442 of the pipeline) writes the keys in
\* sorted order, the keys of external_urls below it
DumpOrder ==
    <<"aliases", "artist_type", "associated_acts", "birth_date", "birth_place",
      "death_date", "disambiguation", "enhancement_provider",
      "external_urls.musicbrainz", "external_urls.spotify", "gender", "genres",
      "instruments", "last_updated", "members", "musicbrainz_enriched_at",
      "musicbrainz_id", "origin", "original_members", "tags", "title">>

\* parse_card, lines 103-117, on the file that holds the dump of frontmatter:
\* the YAML read is content[3:content.find('---', 3)], which ends at the first
\* "---" of the file, be it the closing line or part of a value; the fields
\* dumped after that place are not read
parse_card(frontmatter) ==
    LET dashed == {i \in DOMAIN DumpOrder : contains(frontmatter[DumpOrder[i]], DASHES)}
    IN  IF dashed = {} THEN frontmatter
        ELSE [f \in DOMAIN frontmatter |->
                 LET i == CHOOSE j \in DOMAIN DumpOrder : DumpOrder[j] = f
                 IN  IF i < SetMin(dashed) THEN frontmatter[f]
                     ELSE IF i = SetMin(dashed) THEN before_dashes(frontmatter[f])
                     ELSE <<>>]

needs_musicbrainz_enrichment(force, frontmatter) ==
    IF force THEN TRUE
    ELSE IF frontmatter["musicbrainz_id"] # <<>> THEN FALSE
    ELSE \A field \in {"birth_date", "death_date", "gender", "disambiguation", "aliases"} :
            frontmatter[field] = <<>>

\* lines 510-515: the id and its link are written whatever the card holds
merge_ids(frontmatter, mb_data) ==
    IF mb_data["mbid"] # <<>>
    THEN [frontmatter EXCEPT !["musicbrainz_id"] = mb_data["mbid"],
                             !["external_urls.musicbrainz"] = musicbrainz_url(mb_data["mbid"])]
    ELSE frontmatter

\* lines 517-539: each field is added only if the card has no value for it
merge_additive(frontmatter, mb_data) ==
    [f \in DOMAIN frontmatter |->
        IF f \in AdditiveFields /\ mb_data[f] # <<>> /\ frontmatter[f] = <<>>
        THEN mb_data[f]
        ELSE frontmatter[f]]

\* lines 541-547: origin goes to birth_place for a person, to origin otherwise
merge_origin(frontmatter, mb_data) ==
    IF mb_data["origin"] # <<>> /\ frontmatter["origin"] = <<>>
       /\ frontmatter["birth_place"] = <<>>
    THEN IF is_person_type(mb_data["artist_type"])
         THEN [frontmatter EXCEPT !["birth_place"] = mb_data["origin"]]
         ELSE [frontmatter EXCEPT !["origin"] = mb_data["origin"]]
    ELSE frontmatter

\* lines 549-551
merge_timestamps(frontmatter, now) ==
    [frontmatter EXCEPT !["last_updated"] = now, !["musicbrainz_enriched_at"] = now]

\* the front matter of the card returned by merge_musicbrainz_into_card
merge_musicbrainz_into_card(frontmatter, mb_data, now) ==
    merge_timestamps(
        merge_origin(merge_additive(merge_ids(frontmatter, mb_data), mb_data), mb_data),
        now)

OLD == <<"old">>

NOW == <<"now">>

\* the front matter whose fields in S hold an earlier value
CardWith(S) ==
    [f \in FrontMatterFields |->
        IF f \in ResearchFields THEN <<"research">>
        ELSE IF f \in Timestamps THEN <<"earlier">>
        ELSE IF f = "artist_type" /\ f \in S THEN <<"Group">>
        ELSE IF f \in S THEN OLD
        ELSE <<>>]

\* Cards written by the pipeline or by an earlier backfill: the id and its link
\* are set together, and at most MaxPreset further encyclopedia fields are set.
InitialFrontMatters ==
    {CardWith(S \cup I) :
        S \in {T \in SUBSET (AdditiveFields \cup {"origin", "birth_place"}) :
                  Cardinality(T) <= MaxPreset},
        I \in {{}, IdFields}}

\* a name of the encyclopedia with three hyphens in it
DASHED == <<"A", "-", "-", "-", "B">>

\* Metadata of an accepted match: the id, and at most MaxFetched further fields;
\* a death date and associated acts for a person only, members for another
\* type only (lines 346-356 and 395-401).
FetchedMetadata ==
    {[f \in MetadataFields |->
        IF f = "mbid" THEN <<"mbid-1">>
        ELSE IF f = "artist_type" THEN t
        ELSE IF f \in S THEN <<"mb">>
        ELSE <<>>] :
        S \in {T \in SUBSET (MetadataFields \ {"mbid", "artist_type"}) :
                  /\ Cardinality(T) <= MaxFetched
                  /\ T \cap {"death_date", "associated_acts", "members"} = {}},
        t \in {<<>>, <<"Person">>, <<"Group">>}}
    \cup {[f \in MetadataFields |->
              IF f = "mbid" THEN <<"mbid-1">>
              ELSE IF f = "artist_type" THEN typed[2]
              ELSE IF f = typed[1] THEN <<"mb">>
              ELSE <<>>] :
              typed \in {<<"death_date", <<"Person">>>>, <<"associated_acts", <<"Person">>>>,
                         <<"members", <<"Group">>>>, <<"members", <<>>>>}}
    \cup {[f \in MetadataFields |->
              IF f = "mbid" THEN <<"mbid-1">>
              ELSE IF f = "artist_type" THEN typed[2]
              ELSE IF f = typed[1] THEN DASHED
              ELSE <<>>] :
              typed \in {<<"associated_acts", <<"Person">>>>, <<"aliases", <<>>>>}}

BackfillStats ==
    [total |-> 0, processed |-> 0, updated |-> 0, skipped_has_mb |-> 0,
     skipped_no_mb_data |-> 0, errors |-> 0]

Bump(stats, counter) == [stats EXCEPT ![counter] = @ + 1]

\* line 36, in tenths of a second: the pause the encyclopedia service requires
MUSICBRAINZ_RATE_LIMIT == 10

\* line 850, in tenths of a second: time.sleep(0.1) after each card
CARD_PAUSE == 1

\* time.sleep: gap is the time slept since the last encyclopedia request, in
\* tenths of a second, counted up to the required pause
sleep(b, tenths) ==
    [b EXCEPT !.gap = IF b.gap + tenths > MUSICBRAINZ_RATE_LIMIT
                      THEN MUSICBRAINZ_RATE_LIMIT ELSE b.gap + tenths]

\* a request to the encyclopedia service (search_artists, get_artist_by_id,
\* browse_recordings); hasty records that one was sent before the pause was over
request(b) ==
    [b EXCEPT !.hasty = b.hasty \/ b.gap < MUSICBRAINZ_RATE_LIMIT, !.gap = 0]

\* get_musicbrainz_metadata returning None, lines 305-316 and 414-421: after the
\* search alone (no confident match, no id, an error), or after the pause of
\* line 328 and a detail request that failed
lookup_without_data(b, detailed) ==
    IF detailed THEN request(sleep(request(b), MUSICBRAINZ_RATE_LIMIT))
    ELSE request(b)

\* get_musicbrainz_metadata returning metadata: search, pause (328), detail
\* request, pause (481), recordings request
lookup_with_data(b) ==
    request(sleep(request(sleep(request(b), MUSICBRAINZ_RATE_LIMIT)),
                  MUSICBRAINZ_RATE_LIMIT))

\* process_card on a card whose front matter cannot be parsed
ProcessCardParseError ==
    /\ bf.pc = "card"
    /\ ~bf.card.parsable
    /\ bf' = [bf EXCEPT !.pc = "processed", !.stats = Bump(bf.stats, "errors"),
                        !.status = "Parse error"]
    /\ UNCHANGED <<call, mb, pl>>

\* process_card on a card that needs no enrichment
ProcessCardSkip ==
    /\ bf.pc = "card"
    /\ bf.card.parsable
    /\ ~needs_musicbrainz_enrichment(bf.force, parse_card(bf.card.frontmatter))
    /\ bf' = [bf EXCEPT !.pc = "processed", !.stats = Bump(bf.stats, "skipped_has_mb"),
                        !.status = "Already has MB data"]
    /\ UNCHANGED <<call, mb, pl>>

\* process_card: the lookup finds no metadata
ProcessCardNoData ==
    /\ bf.pc = "card"
    /\ bf.card.parsable
    /\ needs_musicbrainz_enrichment(bf.force, parse_card(bf.card.frontmatter))
    /\ \E detailed \in BOOLEAN :
          bf' = [lookup_without_data(bf, detailed) EXCEPT
                    !.pc = "processed", !.lookups = @ + 1,
                    !.stats = Bump(bf.stats, "skipped_no_mb_data"),
                    !.status = "No MB data found"]
    /\ UNCHANGED <<call, mb, pl>>

\* process_card: the lookup returns metadata, which is merged and, unless the
\* run is a dry run, written to the card
ProcessCardUpdate ==
    /\ bf.pc = "card"
    /\ bf.card.parsable
    /\ needs_musicbrainz_enrichment(bf.force, parse_card(bf.card.frontmatter))
    /\ \E mb_data \in FetchedMetadata :
          LET merged == merge_musicbrainz_into_card(parse_card(bf.card.frontmatter),
                                                    mb_data, NOW)
          IN  bf' = [sleep(lookup_with_data(bf), MUSICBRAINZ_RATE_LIMIT) EXCEPT
                  !.pc = "processed",
                  !.lookups = @ + 1,
                  !.mb_data = mb_data,
                  !.before = bf.card.frontmatter,
                  !.merged = merged,
                  !.card = IF bf.dry_run THEN bf.card
                           ELSE [parsable |-> TRUE, frontmatter |-> merged,
                                 updated |-> TRUE],
                  !.stats = Bump(bf.stats, "updated"),
                  !.status = "Updated"]
    /\ UNCHANGED <<call, mb, pl>>

\* process_card: an exception (the write fails, say) is caught and counted
ProcessCardError ==
    /\ bf.pc = "card"
    /\ bf.card.parsable
    /\ needs_musicbrainz_enrichment(bf.force, parse_card(bf.card.frontmatter))
    /\ ~bf.dry_run
    /\ bf' = [sleep(lookup_with_data(bf), MUSICBRAINZ_RATE_LIMIT) EXCEPT
                  !.pc = "processed", !.lookups = @ + 1,
                  !.stats = Bump(bf.stats, "errors"), !.status = "Error"]
    /\ UNCHANGED <<call, mb, pl>>

\* run, lines 842-850: the card is counted as processed, the loop pauses and
\* goes on with the next card, if there is one (what process_card kept of
\* the last card is gone); shelf lists the first cards of the directory
\* (line 94: in sorted order) as the run leaves them, up to the number a later
\* run is limited to
BackfillNextCard ==
    /\ bf.pc = "processed"
    /\ LET counted == sleep([bf EXCEPT !.stats = Bump(bf.stats, "processed"),
                                       !.shelf = IF Len(bf.shelf) < MaxLimit
                                                 THEN Append(bf.shelf, bf.card)
                                                 ELSE bf.shelf], CARD_PAUSE)
       IN  bf' = IF bf.later = <<>>
                 THEN [counted EXCEPT !.pc = "done"]
                 ELSE [counted EXCEPT
                          !.pc = "card", !.card = Head(bf.later), !.later = Tail(bf.later),
                          !.status = "", !.mb_data = [f \in MetadataFields |-> <<>>],
                          !.before = Head(bf.later).frontmatter,
                          !.merged = Head(bf.later).frontmatter]
    /\ UNCHANGED <<call, mb, pl>>

\* main, lines 869-931, called again with --limit: a later run of the script
\* goes through the first cards the earlier run has left in the directory
\* (lines 821-828; the total counts all cards of the directory)
BackfillRunAgain ==
    /\ bf.pc = "done"
    /\ bf.run < MaxRuns
    /\ \E force \in BOOLEAN, dry_run \in BOOLEAN :
          bf' = [bf EXCEPT
                    !.force = force, !.dry_run = dry_run, !.run = @ + 1,
                    !.pc = "card", !.card = Head(bf.shelf), !.later = Tail(bf.shelf),
                    !.shelf = <<>>,
                    !.stats = [BackfillStats EXCEPT !.total = bf.stats.total],
                    !.status = "", !.lookups = 0, !.gap = MUSICBRAINZ_RATE_LIMIT,
                    !.mb_data = [f \in MetadataFields |-> <<>>],
                    !.before = Head(bf.shelf).frontmatter,
                    !.merged = Head(bf.shelf).frontmatter]
    /\ UNCHANGED <<call, mb, pl>>

\* the cards that follow the first one in the directory; updated tells whether
\* process_card has written the card in a run that was no dry run
LaterCards ==
    {[parsable |-> FALSE, frontmatter |-> CardWith({}), updated |-> FALSE],
     [parsable |-> TRUE, frontmatter |-> CardWith({}), updated |-> FALSE]}

BackfillInit ==
    /\ \E force \in BOOLEAN, dry_run \in BOOLEAN,
          card \in {[parsable |-> FALSE, frontmatter |-> CardWith({}), updated |-> FALSE]}
                   \cup {[parsable |-> TRUE, frontmatter |-> fm, updated |-> FALSE] :
                            fm \in InitialFrontMatters},
          later \in SeqsUpTo(LaterCards, MaxCards - 1) :
          bf = [force |-> force, dry_run |-> dry_run, card |-> card, later |-> later,
                shelf |-> <<>>, run |-> 1, pc |-> "card",
                stats |-> [BackfillStats EXCEPT !.total = 1 + Len(later)], status |-> "",
                lookups |-> 0, gap |-> MUSICBRAINZ_RATE_LIMIT, hasty |-> FALSE,
                mb_data |-> [f \in MetadataFields |-> <<>>],
                before |-> card.frontmatter, merged |-> card.frontmatter]
    /\ call = [fn |-> "none"]
    /\ mb = [state |-> "unused"]
    /\ pl = [state |-> "unused"]

BackfillNext ==
    \/ ProcessCardParseError
    \/ ProcessCardSkip
    \/ ProcessCardNoData
    \/ ProcessCardUpdate
    \/ ProcessCardError
    \/ BackfillNextCard
    \/ BackfillRunAgain

BackfillSpec == BackfillInit /\ [][BackfillNext]_vars

(***************************************************************************)
(* Claims about the backfill (checked under BackfillSpec).                 *)
(***************************************************************************)
\* C10: the backfill merge never changes or removes a front-matter field that
\* held a non-empty value before the merge, with or without --force; the only
\* fields it may rewrite are last_updated and musicbrainz_enriched_at.
C10_NeverOverwrites ==
    bf.status = "Updated"
    => \A f \in FrontMatterFields \ Timestamps :
          bf.before[f] # <<>> => bf.merged[f] = bf.before[f]

(***************************************************************************)
(* The text utilities, each applied to inputs drawn from bounded sets.     *)
(***************************************************************************)
DR_JOHN_UPPER == <<"D","R","."," ","J","O","H","N">>

DR_JOHN_TITLE == <<"D","r","."," ","J","o","h","n">>

DR_JOHN_PLAIN == <<"d","r"," ","j","o","h","n">>

SanitizeNames ==
    {DR_JOHN_UPPER, DR_JOHN_TITLE, DR_JOHN_PLAIN,
     <<"A","C","/","D","C">>, <<"A"," ","&"," ","B">>, <<"D","'","A">>,
     <<".","3","8",".">>, <<"a","-","h","a","?">>, <<>>}

CallSanitizeFilename ==
    /\ call.fn = "none"
    /\ \E name \in SanitizeNames :
          call' = [fn |-> "sanitize_filename", name |-> name,
                   ret |-> sanitize_filename(name)]
    /\ UNCHANGED <<mb, bf, pl>>

\* Research entries: name (possibly empty), the narrative context, confidence
ResearchNames == {<<"X">>, <<"x">>, <<"Y">>, <<>>}

ResearchEntries ==
    {[name |-> n, context |-> "toured together", confidence |-> 95] : n \in ResearchNames}

\* Encyclopedia names come from sorted(set(...)) of non-empty credit names
EncyclopediaNames == {<<"x", ".">>, <<"X">>, <<"Y">>, <<"Z", ",">>, <<"z">>, <<" ", "W">>}

EncyclopediaLists ==
    {l \in SeqsUpTo(EncyclopediaNames, MaxEncyclopedia) :
        \A i \in 1..(Len(l) - 1) : str_less(l[i], l[i + 1])}

CallDeduplicateCollaborators ==
    /\ call.fn = "none"
    /\ \E mbc \in EncyclopediaLists, pc \in SeqsUpTo(ResearchEntries, MaxResearch) :
          call' = [fn |-> "deduplicate_collaborators",
                   mb_collaborators |-> mbc, perplexity_collaborators |-> pc,
                   ret |-> deduplicate_collaborators(mbc, pc)]
    /\ UNCHANGED <<mb, bf, pl>>

\* "| c1 | c2 | ... |": a table row of the archive with the given cells
RECURSIVE RowCells(_)
RowCells(cells) ==
    IF cells = <<>> THEN <<>>
    ELSE <<" ">> \o Head(cells) \o <<" ", "|">> \o RowCells(Tail(cells))

Row(cells) == <<"|">> \o RowCells(cells)

Cell(t) == <<t>>

Filler == <<Cell("Tipitina"), Cell("Crawfish Fiesta"), Cell("R&B"), Cell("New Orleans Music Show"), Cell("DJ Soul Sister")>>

TIME == Cell("9:00 PM")

LONGHAIR == Cell("Professor Longhair")

DRJOHN == <<"Dr.", " ", "John">>

\* The lines of the model's archives, each with the names the row must yield
\* (none, or its name cell).
ArchiveLines ==
    { \* a found row: time, name, five cells, status
      [text |-> Row(<<TIME, LONGHAIR>> \o Filler \o <<FOUND>>), expect |-> <<LONGHAIR>>],
      \* any other status
      [text |-> Row(<<TIME, LONGHAIR>> \o Filler \o <<Cell("[x] Not Found")>>), expect |-> <<>>],
      [text |-> Row(<<TIME, DRJOHN>> \o Filler \o <<Cell("Found")>>), expect |-> <<>>],
      \* header and separator rows
      [text |-> Row(<<Cell("Time"), Cell("Artist")>> \o Filler \o <<Cell("Status")>>), expect |-> <<>>],
      [text |-> Row(<<Cell("Time"), Cell("Artist")>> \o Filler \o <<FOUND>>), expect |-> <<>>],
      [text |-> Row([i \in 1..8 |-> Cell(":----")]), expect |-> <<>>],
      [text |-> Row(<<<<>>, DRJOHN>> \o Filler \o <<FOUND>>), expect |-> <<>>],
      \* short and malformed lines
      [text |-> Row(<<TIME, DRJOHN, FOUND>>), expect |-> <<>>],
      [text |-> Row(<<TIME, DRJOHN>> \o Filler), expect |-> <<>>],
      [text |-> <<"|">>, expect |-> <<>>],
      [text |-> <<"# WWOZ playlist">>, expect |-> <<>>],
      [text |-> <<" ", " ">>, expect |-> <<>>],
      [text |-> <<>>, expect |-> <<>>],
      \* an empty name cell
      [text |-> Row(<<TIME, <<>>>> \o Filler \o <<FOUND>>), expect |-> <<>>],
      \* an indented row, a row with a further column, a row without the closing pipe
      [text |-> <<" ", " ">> \o Row(<<TIME, DRJOHN>> \o Filler \o <<FOUND>>), expect |-> <<DRJOHN>>],
      [text |-> Row(<<TIME, DRJOHN>> \o Filler \o <<FOUND, Cell("95%")>>), expect |-> <<DRJOHN>>],
      [text |-> Row(<<TIME, LONGHAIR>> \o Filler) \o <<" ">> \o FOUND,
       expect |-> <<LONGHAIR>>],
      \* the status one column further right
      [text |-> Row(<<TIME, DRJOHN>> \o Filler \o <<Cell("x"), FOUND>>), expect |-> <<>>] }

\* the lines joined by "\n", as read from the file
RECURSIVE JoinLines(_)
JoinLines(lines) ==
    IF lines = <<>> THEN <<>>
    ELSE IF Len(lines) = 1 THEN lines[1].text
    ELSE lines[1].text \o <<"\n">> \o JoinLines(Tail(lines))

CallParseArchive ==
    /\ call.fn = "none"
    /\ \E lines \in SeqsUpTo(ArchiveLines, MaxLines), readable \in BOOLEAN :
          call' = [fn |-> "parse_archive", lines |-> lines, readable |-> readable,
                   ret |-> parse_archive([readable |-> readable, content |-> JoinLines(lines)])]
    /\ UNCHANGED <<mb, bf, pl>>

Instruments == {"guitar", "vocals", "piano"}

CallDeduplicateList ==
    /\ call.fn = "none"
    /\ \E items \in SeqsUpTo(Instruments, MaxItems) :
          call' = [fn |-> "deduplicate_list", items |-> items, ret |-> deduplicate_list(items)]
    /\ UNCHANGED <<mb, bf, pl>>

(***************************************************************************)
(* parse_member_relationships (pipeline), lines 606-670.                   *)
(***************************************************************************)
FOUNDER == <<"f","o","u","n","d","e","r">>

ORIGINAL == <<"o","r","i","g","i","n","a","l">>

\* the items of str(list) for a list of strings: 'a', 'b'
RECURSIVE str_items(_)
str_items(items) ==
    IF items = <<>> THEN <<>>
    ELSE <<"'">> \o Head(items) \o <<"'">>
         \o (IF Tail(items) = <<>> THEN <<>> ELSE <<",", " ">> \o str_items(Tail(items)))

\* str(list) for a list of strings: ['a', 'b']
str_list(items) == <<"[">> \o str_items(items) \o <<"]">>

\* lines 641-647
member_info(rel) ==
    [name |-> rel.name, instruments |-> rel.attributes, begin |-> rel.begin, end |-> rel.end]

\* lines 658-664: the test that puts a band member into original_members
is_original_member(rel) ==
    LET attributes == lower(str_list(rel.attributes))
    IN  IF contains(attributes, ORIGINAL) \/ rel.end = ""
        THEN contains(attributes, FOUNDER) \/ (rel.begin # "" /\ rel.end = "")
        ELSE FALSE

\* lines 625-664: the loop over artist-relation-list
RECURSIVE member_loop(_, _, _, _)
member_loop(relations, artist_type_lower, members, original_members) ==
    IF relations = <<>> THEN [members |-> members, original_members |-> original_members]
    ELSE LET rel == Head(relations)
             rest == Tail(relations)
         IN  IF rel.type # "member of band" \/ rel.name = ""
             THEN member_loop(rest, artist_type_lower, members, original_members)
             ELSE IF contains(artist_type_lower, lower(PERSON))
             THEN member_loop(rest, artist_type_lower,
                              Append(members, member_info(rel)), original_members)
             ELSE member_loop(rest, artist_type_lower,
                              Append(members, member_info(rel)),
                              IF is_original_member(rel)
                              THEN Append(original_members, member_info(rel))
                              ELSE original_members)

parse_member_relationships(artist_data, artist_type) ==
    member_loop(artist_data.relations, lower(artist_type), <<>>, <<>>)

\* Relations as the encyclopedia client returns them: a type, the related
\* artist's name (possibly empty), an attribute list, begin and end dates
AttributeLists ==
    {<<>>, <<<<"b","a","s","s">>>>, <<FOUNDER>>, <<ORIGINAL>>,
     <<<<"b","a","s","s">>, <<"F","o","u","n","d","e","r">>>>, <<ORIGINAL, FOUNDER>>}

Relations ==
    {[type |-> "member of band", name |-> "Art", attributes |-> a, begin |-> b, end |-> e] :
        a \in AttributeLists, b \in {"", "1970"}, e \in {"", "1980"}}
    \cup {[type |-> "member of band", name |-> "", attributes |-> <<FOUNDER>>,
           begin |-> "1970", end |-> ""],
          [type |-> "collaboration", name |-> "Zig", attributes |-> <<FOUNDER>>,
           begin |-> "1970", end |-> ""]}

CallParseMemberRelationships ==
    /\ call.fn = "none"
    /\ \E relations \in SeqsUpTo(Relations, MaxRelations), artist_type \in {PERSON, GROUP, <<>>} :
          call' = [fn |-> "parse_member_relationships",
                   relations |-> relations, artist_type |-> artist_type,
                   ret |-> parse_member_relationships([relations |-> relations], artist_type)]
    /\ UNCHANGED <<mb, bf, pl>>

TextInit ==
    /\ call = [fn |-> "none"]
    /\ mb = [state |-> "unused"]
    /\ bf = [state |-> "unused"]
    /\ pl = [state |-> "unused"]

TextNext ==
    \/ CallSanitizeFilename
    \/ CallDeduplicateCollaborators
    \/ CallParseArchive
    \/ CallDeduplicateList
    \/ CallParseMemberRelationships

TextSpec == TextInit /\ [][TextNext]_vars

(***************************************************************************)
(* Claims about the text utilities (checked under TextSpec).               *)
(***************************************************************************)
DR_JOHN_STEM == <<"d","r","_","j","o","h","n">>

\* C6: sanitize_filename returns the same stem, "dr_john", for "DR. JOHN",
\* "Dr. John" and "dr john".
C6_SameStem ==
    (call.fn = "sanitize_filename"
        /\ call.name \in {DR_JOHN_UPPER, DR_JOHN_TITLE, DR_JOHN_PLAIN})
    => call.ret = DR_JOHN_STEM

\* the elements of s at the indices in I, in order, from index i on
RECURSIVE Pick(_, _, _)
Pick(s, I, i) ==
    IF i > Len(s) THEN <<>>
    ELSE (IF i \in I THEN <<s[i]>> ELSE <<>>) \o Pick(s, I, i + 1)

\* the encyclopedia names that match no entry of research and no earlier name
FreshNames(mbc, research) ==
    Pick(mbc,
         {i \in DOMAIN mbc :
            /\ \A k \in DOMAIN research : normalize(research[k].name) # normalize(mbc[i])
            /\ \A j \in 1..(i - 1) : normalize(mbc[j]) # normalize(mbc[i])},
         1)

MergedCollaborators(mbc, research) ==
    research \o [i \in DOMAIN FreshNames(mbc, research) |->
                    musicbrainz_entry(FreshNames(mbc, research)[i])]

\* C7 (as claimed): deduplicate_collaborators returns the research entries, all of
\* them and unchanged, followed by one generated entry for each encyclopedia name
\* whose normalized form equals that of no research entry and of no earlier
\* encyclopedia name.
C7_AllResearchKept ==
    call.fn = "deduplicate_collaborators"
    => call.ret = MergedCollaborators(call.mb_collaborators, call.perplexity_collaborators)

Named(research) == SelectSeq(research, LAMBDA e : e.name # <<>>)

\* C7 (amended): deduplicate_collaborators returns the research entries that have a
\* non-empty name, unchanged and in their original order (an entry without a name
\* is dropped), followed by one generated entry (source musicbrainz) for each
\* encyclopedia name whose normalized form equals that of no named research entry
\* and of no earlier encyclopedia name; with research {name: "X"} and encyclopedia
\* "x." the result is the research entry alone.
C7_NamedResearchKept ==
    call.fn = "deduplicate_collaborators"
    => /\ call.ret = MergedCollaborators(call.mb_collaborators,
                                         Named(call.perplexity_collaborators))
       /\ (/\ Len(call.perplexity_collaborators) = 1
           /\ call.perplexity_collaborators[1].name = <<"X">>
           /\ call.mb_collaborators = <<<<"x", ".">>>>)
          => call.ret = call.perplexity_collaborators

\* research gives X, the encyclopedia gives "x.": one entry, the research entry
C7_Witness ==
    /\ call.fn = "deduplicate_collaborators"
    /\ Len(call.perplexity_collaborators) = 1
    /\ call.perplexity_collaborators[1].name = <<"X">>
    /\ call.mb_collaborators = <<<<"x", ".">>>>
    /\ Len(call.ret) = 1
    /\ "source" \notin DOMAIN call.ret[1]

RECURSIVE Flatten(_)
Flatten(ss) == IF ss = <<>> THEN <<>> ELSE Head(ss) \o Flatten(Tail(ss))

\* C8: parse_archive returns, in file order and without deduplication, the name
\* cell of exactly the table rows with at least 9 columns whose status column is
\* the Found marker, whose name is non-empty and which are no header or separator
\* row; any other line yields nothing, and no error is raised (an unreadable file
\* yields the empty list).
C8_FoundRowsInOrder ==
    call.fn = "parse_archive"
    => call.ret = IF call.readable
                  THEN Flatten([i \in DOMAIN call.lines |-> call.lines[i].expect])
                  ELSE <<>>

\* a found row followed by a Not Found row: the one name is returned
C8_Witness ==
    /\ call.fn = "parse_archive"
    /\ call.readable
    /\ Len(call.lines) = 2
    /\ call.lines[1].expect = <<LONGHAIR>>
    /\ contains(call.lines[2].text, <<"[x] Not Found">>)
    /\ call.ret = <<LONGHAIR>>

FirstIndex(s, x) == SetMin({i \in DOMAIN s : s[i] = x})

\* C9: deduplicate_list(items) = (r, d): r holds each distinct element of items
\* exactly once, in order of first occurrence, d = len(items) - len(r), and
\* deduplicate_list(r) = (r, 0); [guitar, vocals, guitar] gives
\* ([guitar, vocals], 1).
C9_FirstOccurrenceOrder ==
    call.fn = "deduplicate_list"
    => LET r == call.ret[1]
           d == call.ret[2]
       IN  /\ Range(r) = Range(call.items)
           /\ \A i, j \in DOMAIN r : i # j => r[i] # r[j]
           /\ \A i, j \in DOMAIN r :
                 i < j => FirstIndex(call.items, r[i]) < FirstIndex(call.items, r[j])
           /\ d = Len(call.items) - Len(r)
           /\ deduplicate_list(r) = <<r, 0>>
           /\ call.items = <<"guitar", "vocals", "guitar">>
                 => call.ret = <<<<"guitar", "vocals">>, 1>>

C9_Witness ==
    /\ call.fn = "deduplicate_list"
    /\ call.items = <<"guitar", "vocals", "guitar">>
    /\ call.ret = <<<<"guitar", "vocals">>, 1>>


(***************************************************************************)
(* The pipeline: process_archive, lines 1587-1631, and process_artist,     *)
(* lines 1460-1585, step by step.  The cards directory is a function from  *)
(* filename stems to cards, a card being what has_perplexity_enhancement   *)
(* reads of it; the ledger (connections_db) is a function from artist      *)
(* names to entries.  The text of a card and the image files are not       *)
(* modelled.  MaxRetries stands for the interpreter's recursion limit.     *)
(***************************************************************************)
DR_J == <<"D", "r", ".", "J">>

DRJ == <<"d", "r", "j">>

\* two names whose filenames differ in punctuation only
ArtistNames == {DR_J, DRJ}

\* rows of the archives the pipeline is run on
PipelineRows ==
    {[text |-> Row(<<TIME, n>> \o Filler \o <<FOUND>>)] : n \in ArtistNames}
    \cup {[text |-> Row(<<TIME, DRJ>> \o Filler \o <<Cell("[x] Not Found")>>)]}

ArchiveFiles ==
    {[readable |-> TRUE, content |-> JoinLines(l)] : l \in SeqsUpTo(PipelineRows, MaxArtists)}
    \cup {[readable |-> FALSE, content |-> <<>>]}

\* A card of the directory: parsable tells whether has_perplexity_enhancement
\* (lines 1015-1019) gets the card's fields from it, i.e. whether the text
\* between the opening "---" and the next "---" is the YAML of the whole
\* front matter.
ENHANCED == [parsable |-> TRUE, enhancement_provider |-> "perplexity", musicbrainz_id |-> ""]

BASIC == [parsable |-> TRUE, enhancement_provider |-> "", musicbrainz_id |-> ""]

GARBLED == [parsable |-> FALSE, enhancement_provider |-> "", musicbrainz_id |-> ""]

\* yaml.dump writes the keys in sorted order (line 1442), aliases before
\* enhancement_provider, and content.find('---', 3) (line 1016) takes the
\* first "---" after the opening one as the end of the front matter: the
\* front matter is read whole when no alias holds "---"
front_matter_intact(musicbrainz_data) ==
    \A i \in DOMAIN musicbrainz_data.aliases : ~contains(musicbrainz_data.aliases[i], DASHES)

\* a card that carries an encyclopedia id whatever the lookup gave
built_card_with_id(musicbrainz_data) ==
    [ENHANCED EXCEPT !.parsable = front_matter_intact(musicbrainz_data),
                     !.musicbrainz_id = "mbid-1"]

\* build_artist_card, lines 1181, 1196-1197 and 1442-1443, as far as the
\* cards of the directory are modelled: the flag is set, and the encyclopedia
\* id is there when the lookup gave metadata (an empty dict has no mbid)
built_card(musicbrainz_data) ==
    [ENHANCED EXCEPT !.parsable = front_matter_intact(musicbrainz_data),
                     !.musicbrainz_id = IF musicbrainz_data.found THEN "mbid-1" ELSE ""]

\* the directory d with the card at stem written
WithCard(d, stem, card) ==
    [s \in DOMAIN d \cup {stem} |-> IF s = stem THEN card ELSE d[s]]

EmptyDir == [s \in {} |-> BASIC]

\* the cards directory before the run: empty, or one card
InitialCardDirs ==
    {EmptyDir} \cup
    {WithCard(EmptyDir, sanitize_filename(n), c) :
        n \in ArtistNames, c \in {ENHANCED, BASIC, GARBLED}}

\* re.sub(r'[^a-z0-9]', '', stem.lower())
alphanumeric(stem) ==
    SelectSeq(lower(stem), LAMBDA c : c \in Range(LowerLetters) \cup Range(Digits))

\* a lookup that finds no card
find_no_card(cards_dir, artist_name) == [exists |-> FALSE, match_type |-> "none"]

\* a lookup by the exact filename only
find_exact_card(cards_dir, artist_name) ==
    CHOOSE found \in
        {IF sanitized_name \in DOMAIN cards_dir
         THEN [exists |-> TRUE, match_type |-> "exact"]
         ELSE [exists |-> FALSE, match_type |-> "none"] :
            sanitized_name \in {sanitize_filename(artist_name)}} : TRUE

\* a lookup that compares the filenames case aside, punctuation included
find_existing_card_by_case(cards_dir, artist_name) ==
    CHOOSE found \in
        {IF sanitized_name \in DOMAIN cards_dir
         THEN [exists |-> TRUE, match_type |-> "exact"]
         ELSE IF \E existing_file \in DOMAIN cards_dir :
                    lower(existing_file) = lower(sanitized_name)
         THEN [exists |-> TRUE, match_type |-> "case_variant"]
         ELSE [exists |-> FALSE, match_type |-> "none"] :
            sanitized_name \in {sanitize_filename(artist_name)}} : TRUE

\* (exists, match_type); the path of an exact match is the sanitized name
find_existing_card(cards_dir, artist_name) ==
    CHOOSE found \in
        {IF sanitized_name \in DOMAIN cards_dir
         THEN [exists |-> TRUE, match_type |-> "exact"]
         ELSE IF \E existing_file \in DOMAIN cards_dir :
                    alphanumeric(existing_file) = alphanumeric(sanitized_name)
         THEN [exists |-> TRUE, match_type |-> "case_variant"]
         ELSE [exists |-> FALSE, match_type |-> "none"] :
            sanitized_name \in {sanitize_filename(artist_name)}} : TRUE

\* a check that reports no card as enhanced
never_enhanced(cards_dir, card_path) == FALSE

\* a card that cannot be read or parsed counts as not enhanced
has_perplexity_enhancement(cards_dir, card_path) ==
    /\ cards_dir[card_path].parsable
    /\ cards_dir[card_path].enhancement_provider = "perplexity"

\* the ledger: the names connected to an artist, by artist name
EmptyLedger == [n \in {} |-> <<>>]

PipelineStats ==
    [total |-> 0, processed |-> 0, skipped_existing |-> 0, skipped_perplexity |-> 0,
     skipped_duplicate |-> 0, enhanced |-> 0, created |-> 0, errors |-> 0,
     connections_found |-> 0]

\* process_artist returns status without counting it
return_uncounted(p, counter, status) ==
    [p EXCEPT !.pc = "artist_returned", !.status = status]

\* process_artist returns status, having counted it under counter
Return(p, counter, status) ==
    [p EXCEPT !.pc = "artist_returned", !.stats = Bump(p.stats, counter),
              !.status = status]

\* an exception that leaves process_artist and process_archive
propagate_exception(p) == [p EXCEPT !.pc = "raised"]

\* lines 1582-1585: the handler around the whole of process_artist
on_exception(p) == Return(p, "errors", "Error")

\* the names of the connections, lines 1556-1561
connection_names(perplexity_data) ==
    [i \in DOMAIN perplexity_data.collaborators |-> perplexity_data.collaborators[i].name]

\* a ledger that keeps the entry of the last artist only
replace_connections(connections_db, artist_name, perplexity_data) ==
    IF perplexity_data.has_connections
    THEN [n \in {artist_name} |-> connection_names(perplexity_data)]
    ELSE connections_db

\* lines 1553-1567: the entry of the artist is set when the research gave a
\* non-empty connections map
update_connections(connections_db, artist_name, perplexity_data) ==
    IF perplexity_data.has_connections
    THEN [n \in DOMAIN connections_db \cup {artist_name} |->
             IF n = artist_name THEN connection_names(perplexity_data)
             ELSE connections_db[n]]
    ELSE connections_db

\* results of a research call that succeeded
ResearchResults ==
    {[has_connections |-> FALSE, collaborators |-> <<>>],
     [has_connections |-> TRUE,
      collaborators |-> <<[name |-> <<"X">>, context |-> "toured together", confidence |-> 95]>>]}

\* the mock of a dry run, lines 781-797
MockResearch == [has_connections |-> TRUE, collaborators |-> <<>>]

\* metadata of the encyclopedia stage: none, data with one collaborator, or
\* data with an alias that holds three dashes
EncyclopediaResults ==
    {[found |-> FALSE, collaborators |-> <<>>, aliases |-> <<>>],
     [found |-> TRUE, collaborators |-> << <<"x", ".">> >>, aliases |-> <<>>],
     [found |-> TRUE, collaborators |-> <<>>,
      aliases |-> << <<"D","r","-","-","-","J">> >>]}

CurrentArtist == pl.artists[pl.idx]

PipelineInit ==
    /\ \E force \in BOOLEAN, dry_run \in BOOLEAN, archive \in ArchiveFiles,
          cards_dir \in InitialCardDirs :
          pl = [force |-> force, dry_run |-> dry_run, archive |-> archive,
                cards_dir |-> cards_dir,
                connections_db |-> EmptyLedger,
                connections_file |-> EmptyLedger,
                ledger_at_start |-> EmptyLedger, saved |-> "no",
                stats |-> PipelineStats, pc |-> "parse", artists |-> <<>>, idx |-> 1,
                invoked |-> <<>>, written |-> <<>>, researched |-> <<>>,
                status |-> "", calls |-> <<>>,
                exists |-> FALSE,
                retries |-> 0,
                musicbrainz_data |-> [found |-> FALSE, collaborators |-> <<>>, aliases |-> <<>>],
                perplexity_data |-> [has_connections |-> FALSE, collaborators |-> <<>>],
                pre |-> [cards_dir |-> cards_dir,
                         connections_db |-> EmptyLedger,
                         connections_file |-> EmptyLedger,
                         stats |-> PipelineStats]]
    /\ call = [fn |-> "none"]
    /\ mb = [state |-> "unused"]
    /\ bf = [state |-> "unused"]


\* lines 1592-1597: no artists, and process_archive returns; the archive is
\* read once, and the names are all that is kept of it
ParseArchive ==
    /\ pl.pc = "parse"
    /\ LET artists == parse_archive(pl.archive)
       IN  pl' = IF artists = <<>>
                 THEN [pl EXCEPT !.pc = "returned", !.archive = "read"]
                 ELSE [pl EXCEPT !.pc = "authenticate", !.artists = artists,
                                 !.archive = "read",
                                 !.stats = [pl.stats EXCEPT !.total = Len(artists)]]
    /\ UNCHANGED <<call, mb, bf>>

\* lines 1599-1602
AuthenticateSpotify ==
    /\ pl.pc = "authenticate"
    /\ \E ok \in BOOLEAN :
          pl' = [pl EXCEPT !.pc = IF ok THEN "initialize" ELSE "returned"]
    /\ UNCHANGED <<call, mb, bf>>

\* lines 1604-1607; a dry run initialises nothing and succeeds
InitializePerplexity ==
    /\ pl.pc = "initialize"
    /\ \E ok \in (IF pl.dry_run THEN {TRUE} ELSE BOOLEAN) :
          pl' = [pl EXCEPT !.pc = IF ok THEN "loop" ELSE "returned"]
    /\ UNCHANGED <<call, mb, bf>>

\* what process_artist may change, as it stands
Snapshot(p) ==
    [cards_dir |-> p.cards_dir, connections_db |-> p.connections_db,
     connections_file |-> p.connections_file, stats |-> p.stats]

\* process_artist is entered for the next name of the loop
Enter(p) ==
    [p EXCEPT !.invoked = Append(p.invoked, p.artists[p.idx]),
              !.exists = find_existing_card(p.cards_dir, p.artists[p.idx]).exists,
              !.pre = Snapshot(p)]

\* process_artist has returned: its locals and the record of its calls are gone
Leave(p) ==
    [p EXCEPT !.calls = <<>>, !.retries = 0, !.exists = FALSE,
              !.musicbrainz_data = [found |-> FALSE, collaborators |-> <<>>, aliases |-> <<>>],
              !.perplexity_data = [has_connections |-> FALSE, collaborators |-> <<>>],
              !.pre = Snapshot(p)]

\* lines 1477-1482: a card under a variant of the filename
SkipDuplicate ==
    /\ pl.pc = "loop"
    /\ pl.idx <= Len(pl.artists)
    /\ LET found == find_existing_card(pl.cards_dir, CurrentArtist)
       IN  /\ found.exists
           /\ ~pl.force
           /\ found.match_type = "case_variant"
    /\ pl' = Return(Enter(pl), "skipped_duplicate", "Duplicate")
    /\ UNCHANGED <<call, mb, bf>>

\* lines 1484-1488: the card is already enhanced
SkipEnhanced ==
    /\ pl.pc = "loop"
    /\ pl.idx <= Len(pl.artists)
    /\ LET found == find_existing_card(pl.cards_dir, CurrentArtist)
       IN  /\ found.exists
           /\ ~pl.force
           /\ found.match_type = "exact"
           /\ has_perplexity_enhancement(pl.cards_dir, sanitize_filename(CurrentArtist))
    /\ pl' = Return(Enter(pl), "skipped_perplexity", "Already enhanced with Perplexity")
    /\ UNCHANGED <<call, mb, bf>>

\* otherwise the stages run
StartStages ==
    /\ pl.pc = "loop"
    /\ pl.idx <= Len(pl.artists)
    /\ LET found == find_existing_card(pl.cards_dir, CurrentArtist)
       IN  IF found.exists /\ ~pl.force
           THEN /\ found.match_type = "exact"
                /\ ~has_perplexity_enhancement(pl.cards_dir, sanitize_filename(CurrentArtist))
           ELSE TRUE
    /\ pl' = [Enter(pl) EXCEPT !.pc = "spotify"]
    /\ UNCHANGED <<call, mb, bf>>

\* get_spotify_metadata, lines 217-240: an artist is found
SpotifyFound ==
    /\ pl.pc = "spotify"
    /\ pl' = [pl EXCEPT !.pc = "musicbrainz", !.calls = Append(pl.calls, "spotify")]
    /\ UNCHANGED <<call, mb, bf>>

\* lines 245-248: status 401, the token is renewed and the search repeated
SpotifyUnauthorized ==
    /\ pl.pc = "spotify"
    /\ pl.retries < MaxRetries
    /\ pl' = [pl EXCEPT !.retries = pl.retries + 1, !.calls = Append(pl.calls, "spotify")]
    /\ UNCHANGED <<call, mb, bf>>

\* lines 1496-1498: no artist, an error status or an exception of the search
SpotifyNotFound ==
    /\ pl.pc = "spotify"
    /\ pl' = Return([pl EXCEPT !.calls = Append(pl.calls, "spotify")],
                    "errors", "Spotify not found")
    /\ UNCHANGED <<call, mb, bf>>

\* lines 1502-1512: the encyclopedia stage never stops the artist
GetMusicBrainzMetadata ==
    /\ pl.pc = "musicbrainz"
    /\ \E musicbrainz_data \in EncyclopediaResults :
          pl' = [pl EXCEPT !.pc = "research", !.musicbrainz_data = musicbrainz_data,
                           !.calls = Append(pl.calls, "musicbrainz")]
    /\ UNCHANGED <<call, mb, bf>>

\* lines 1516-1519: the research call fails or its answer cannot be parsed
ResearchFailed ==
    /\ pl.pc = "research"
    /\ ~pl.dry_run
    /\ pl' = Return([pl EXCEPT !.calls = Append(pl.calls, "perplexity")],
                    "errors", "Perplexity research failed")
    /\ UNCHANGED <<call, mb, bf>>

\* research_with_perplexity succeeds; a dry run returns the mock without a call
ResearchSucceeded ==
    /\ pl.pc = "research"
    /\ IF pl.dry_run
       THEN pl' = [pl EXCEPT !.pc = "build", !.perplexity_data = MockResearch]
       ELSE \E perplexity_data \in ResearchResults :
               pl' = [pl EXCEPT !.pc = "build", !.perplexity_data = perplexity_data,
                                !.calls = Append(pl.calls, "perplexity")]
    /\ UNCHANGED <<call, mb, bf>>

\* lines 1523-1545: the collaborators are merged, the image fetched, the card built
BuildCard ==
    /\ pl.pc = "build"
    /\ LET perplexity_collaborators == pl.perplexity_data.collaborators
           mb_collaborators == pl.musicbrainz_data.collaborators
       IN  pl' = IF mb_collaborators # <<>> \/ perplexity_collaborators # <<>>
                 THEN [pl EXCEPT !.pc = "write",
                          !.perplexity_data =
                              [has_connections |-> TRUE,
                               collaborators |->
                                   deduplicate_collaborators(mb_collaborators,
                                                             perplexity_collaborators)]]
                 ELSE [pl EXCEPT !.pc = "write"]
    /\ UNCHANGED <<call, mb, bf>>

\* a stage raises (an answer of an unexpected shape, say)
BuildRaises ==
    /\ pl.pc = "build"
    /\ pl' = on_exception(pl)
    /\ UNCHANGED <<call, mb, bf>>

\* lines 1452-1458 and 1549-1551: write_text raises, either when it opens the
\* file (the card is as before) or after it has opened it in mode 'w', which
\* empties or creates the file (disk full, text that cannot be encoded)
WriteCardFailed ==
    /\ pl.pc = "write"
    /\ ~pl.dry_run
    /\ \E opened \in BOOLEAN :
          pl' = Return([pl EXCEPT !.cards_dir =
                           IF opened
                           THEN WithCard(pl.cards_dir, sanitize_filename(CurrentArtist),
                                         GARBLED)
                           ELSE pl.cards_dir],
                       "errors", "Failed to write card")
    /\ UNCHANGED <<call, mb, bf>>

\* lines 1547-1580: the card is written, the ledger and the statistics updated;
\* written lists the filenames of the cards this run has written, researched
\* the connections its research calls have given
WriteCard ==
    /\ pl.pc = "write"
    /\ LET names == [i \in DOMAIN pl.perplexity_data.collaborators |->
                        pl.perplexity_data.collaborators[i].name]
           written == [pl EXCEPT
               !.cards_dir = IF pl.dry_run THEN pl.cards_dir
                             ELSE WithCard(pl.cards_dir, sanitize_filename(CurrentArtist),
                                           built_card(pl.musicbrainz_data)),
               !.written = IF pl.dry_run THEN pl.written
                           ELSE Append(pl.written, sanitize_filename(CurrentArtist)),
               !.connections_db =
                   update_connections(pl.connections_db, CurrentArtist, pl.perplexity_data),
               !.researched =
                   IF pl.perplexity_data.has_connections
                   THEN Append(pl.researched, [artist |-> CurrentArtist, names |-> names])
                   ELSE pl.researched,
               !.stats = [pl.stats EXCEPT !.connections_found =
                             IF pl.perplexity_data.has_connections
                             THEN pl.stats.connections_found + Len(names)
                             ELSE pl.stats.connections_found]]
       IN  pl' = IF pl.exists THEN Return(written, "enhanced", "Enhanced")
                 ELSE Return(written, "created", "Created")
    /\ UNCHANGED <<call, mb, bf>>

\* lines 1621-1625: back in the loop
NextArtist ==
    /\ pl.pc = "artist_returned"
    /\ pl' = Leave([pl EXCEPT !.pc = "loop", !.idx = pl.idx + 1,
                              !.stats = Bump(pl.stats, "processed")])
    /\ UNCHANGED <<call, mb, bf>>

\* _save_connections, lines 142-150: nothing is saved in a dry run; otherwise
\* the ledger is dumped to the file, or open raises and the file is as before,
\* or the dump raises after open has emptied the file, which then holds no
\* entry that can be loaded
SaveConnections ==
    /\ pl.pc = "loop"
    /\ pl.idx > Len(pl.artists)
    /\ \E saved \in (IF pl.dry_run THEN {"dry run"} ELSE {"saved", "not opened", "emptied"}) :
          pl' = [pl EXCEPT !.pc = "done",
                           !.saved = saved,
                           !.connections_file =
                               IF saved = "saved" THEN pl.connections_db
                               ELSE IF saved = "emptied" THEN EmptyLedger
                               ELSE pl.connections_file]
    /\ UNCHANGED <<call, mb, bf>>

PipelineNext ==
    \/ ParseArchive
    \/ AuthenticateSpotify
    \/ InitializePerplexity
    \/ SkipDuplicate
    \/ SkipEnhanced
    \/ StartStages
    \/ SpotifyFound
    \/ SpotifyUnauthorized
    \/ SpotifyNotFound
    \/ GetMusicBrainzMetadata
    \/ ResearchFailed
    \/ ResearchSucceeded
    \/ BuildCard
    \/ BuildRaises
    \/ WriteCardFailed
    \/ WriteCard
    \/ NextArtist
    \/ SaveConnections

PipelineSpec == PipelineInit /\ [][PipelineNext]_vars

\* the steps of the loop over the artists
LoopStep ==
    \/ SkipDuplicate \/ SkipEnhanced \/ StartStages
    \/ SpotifyFound \/ SpotifyUnauthorized \/ SpotifyNotFound
    \/ GetMusicBrainzMetadata \/ ResearchFailed \/ ResearchSucceeded
    \/ BuildCard \/ BuildRaises \/ WriteCardFailed \/ WriteCard
    \/ NextArtist \/ SaveConnections

\* the sequential program goes on: a step of the loop that can be taken is
\* taken (requests time out, pauses end)
PipelineFairSpec == PipelineSpec /\ WF_vars(LoopStep)


(***************************************************************************)
(* Claims about the pipeline (checked under PipelineSpec, and under        *)
(* PipelineFairSpec where termination is claimed).                         *)
(***************************************************************************)
\* positions inside process_artist, and the one just after its return
InProcessArtist == {"spotify", "musicbrainz", "research", "build", "write", "artist_returned"}

\* when process_artist was entered, force was not set and the card at the
\* artist's sanitized filename was enhanced
EnteredOnEnhancedCard ==
    /\ pl.pc \in InProcessArtist
    /\ ~pl.force
    /\ sanitize_filename(CurrentArtist) \in DOMAIN pl.pre.cards_dir
    /\ pl.pre.cards_dir[sanitize_filename(CurrentArtist)].parsable
    /\ pl.pre.cards_dir[sanitize_filename(CurrentArtist)].enhancement_provider = "perplexity"

CalledInOrder ==
    /\ pl.invoked = SubSeq(pl.artists, 1, Len(pl.invoked))
    /\ pl.stats.total = Len(pl.artists)
    /\ Len(pl.invoked) = (IF pl.pc \in InProcessArtist THEN pl.idx ELSE pl.idx - 1)
    /\ pl.stats.processed = pl.idx - 1

\* C5: once authentication and initialisation have succeeded, process_archive
\* calls process_artist exactly once for every name returned by parse_archive,
\* in archive order, whatever the outcome of earlier artists; the loop always
\* terminates, and at its end stats.processed = stats.total.
C5_EveryArtistOnce ==
    /\ [](pl.pc \in InProcessArtist \cup {"loop", "done"} => CalledInOrder)
    /\ [](pl.pc = "done"
            => /\ pl.invoked = pl.artists
               /\ pl.stats.processed = pl.stats.total)
    /\ (pl.pc = "loop" ~> pl.pc = "done")

\* the run ends with a card created for the second artist after the first one
\* met an exception or an error status
C5_Witness ==
    /\ pl.pc = "done"
    /\ Len(pl.invoked) = 2
    /\ pl.stats.errors = 1
    /\ pl.stats.created = 1
    /\ pl.status = "Created"


(***************************************************************************)
(* One invocation of the pipeline from main, lines 1656-1732: the          *)
(* constructor (lines 78-115) runs before process_archive, and the user    *)
(* may interrupt the run (KeyboardInterrupt, lines 1725-1727).  dirs tells *)
(* which of the two vault directories exist.                               *)
(***************************************************************************)
ZED == <<"Z", "e", "d">>

\* a ledger saved by an earlier run: an artist of the archives and another one
EarlierLedger == (DRJ :> << <<"O", "l", "d">> >>) @@ (ZED :> << <<"X">> >>)

\* the vault before the invocation: a cards directory that does not exist
\* holds no card and no ledger file (the ledger is a file of that directory)
InitialVaults ==
    {[dirs |-> [cards |-> TRUE, images |-> images], cards_dir |-> cards_dir,
      connections_file |-> ledger] :
        images \in BOOLEAN, cards_dir \in InitialCardDirs,
        ledger \in {EmptyLedger, EarlierLedger}}
    \cup {[dirs |-> [cards |-> FALSE, images |-> images], cards_dir |-> EmptyDir,
            connections_file |-> EmptyLedger] :
             images \in BOOLEAN}

InvocationInit ==
    /\ \E force \in BOOLEAN, dry_run \in BOOLEAN, archive \in ArchiveFiles,
          vault \in InitialVaults :
          pl = [force |-> force, dry_run |-> dry_run, archive |-> archive,
                dirs |-> vault.dirs,
                cards_dir |-> vault.cards_dir,
                connections_db |-> EmptyLedger,
                connections_file |-> vault.connections_file,
                ledger_at_start |-> vault.connections_file, saved |-> "no",
                stats |-> PipelineStats, pc |-> "construct", artists |-> <<>>, idx |-> 1,
                invoked |-> <<>>, written |-> <<>>, researched |-> <<>>,
                status |-> "", calls |-> <<>>,
                exists |-> FALSE,
                retries |-> 0,
                musicbrainz_data |-> [found |-> FALSE, collaborators |-> <<>>, aliases |-> <<>>],
                perplexity_data |-> [has_connections |-> FALSE, collaborators |-> <<>>],
                pre |-> [cards_dir |-> vault.cards_dir,
                         connections_db |-> EmptyLedger,
                         connections_file |-> vault.connections_file,
                         stats |-> PipelineStats]]
    /\ call = [fn |-> "none"]
    /\ mb = [state |-> "unused"]
    /\ bf = [state |-> "unused"]

\* __init__, lines 84-86: mkdir(parents=True, exist_ok=True) on both
\* directories, whatever dry_run is; lines 97-99 and 132-140: the ledger file
\* is loaded
Construct ==
    /\ pl.pc = "construct"
    /\ pl' = [pl EXCEPT !.pc = "parse", !.dirs = [cards |-> TRUE, images |-> TRUE],
                        !.connections_db = pl.connections_file,
                        !.pre = [pl.pre EXCEPT !.connections_db = pl.connections_file]]
    /\ UNCHANGED <<call, mb, bf>>

\* positions at which the invocation is over
Ended == {"returned", "done", "raised", "interrupted"}

\* positions inside process_artist before it returns
Stages == {"spotify", "musicbrainz", "research", "build", "write"}

\* KeyboardInterrupt between two steps: main exits, nothing is saved
Interrupt ==
    /\ pl.pc \notin Ended
    /\ pl' = [pl EXCEPT !.pc = "interrupted"]
    /\ UNCHANGED <<call, mb, bf>>

\* KeyboardInterrupt inside card_path.write_text (line 1452): the file has been
\* opened for writing, which empties or creates it, and the text is not in it
InterruptWrite ==
    /\ pl.pc = "write"
    /\ ~pl.dry_run
    /\ pl' = [pl EXCEPT !.pc = "interrupted",
                        !.cards_dir = WithCard(pl.cards_dir,
                                               sanitize_filename(CurrentArtist), GARBLED)]
    /\ UNCHANGED <<call, mb, bf>>

InvocationNext ==
    \/ Construct
    \/ PipelineNext
    \/ Interrupt
    \/ InterruptWrite

InvocationSpec == InvocationInit /\ [][InvocationNext]_vars

\* C11: with --dry-run set, a complete run (construction, then process_archive)
\* mutates nothing of the vault: no step creates, modifies or deletes a card
\* file, the ledger file, or a directory of the cards and images directories.
C11_DryRunMutatesNothing ==
    [][pl.dry_run
         => /\ pl'.dirs = pl.dirs
            /\ pl'.cards_dir = pl.cards_dir
            /\ pl'.connections_file = pl.connections_file]_vars


\* C12: with --dry-run set no request is sent to an external service: every
\* catalog, encyclopedia and research call is skipped or replaced by a mock
\* (calls is the record of the requests process_artist has sent).
C12_DryRunSendsNothing ==
    pl.dry_run => pl.calls = <<>>


\* lines 1474-1488 with force unset: process_artist returns a skip status
\* for artist_name, given the cards on disk
skipped_without_force(cards_dir, artist_name) ==
    LET found == find_existing_card(cards_dir, artist_name)
    IN  /\ found.exists
        /\ IF found.match_type = "case_variant" THEN TRUE
           ELSE has_perplexity_enhancement(cards_dir, sanitize_filename(artist_name))

\* the card of artist_name is on disk, whole, with the enhancement flag
card_written(cards_dir, artist_name) ==
    /\ sanitize_filename(artist_name) \in DOMAIN cards_dir
    /\ cards_dir[sanitize_filename(artist_name)].parsable
    /\ cards_dir[sanitize_filename(artist_name)].enhancement_provider = "perplexity"

\* C13: if a non-dry run is interrupted at any point, the interruption leaves
\* every card as it was (the cards written before it stay whole and enhanced),
\* the artist being processed at the interruption has no new or altered card,
\* and on the next invocation without force the artists whose card was written
\* are skipped while those without a card under any spelling are processed
\* again.
C13_InterruptionSafe ==
    [][(pl'.pc = "interrupted" /\ ~pl.dry_run)
         => /\ pl'.cards_dir = pl.cards_dir
            /\ pl.pc \in Stages => pl'.cards_dir = pl.pre.cards_dir
            /\ \A i \in DOMAIN pl.artists :
                  /\ card_written(pl'.cards_dir, pl.artists[i])
                        => skipped_without_force(pl'.cards_dir, pl.artists[i])
                  /\ ~find_existing_card(pl'.cards_dir, pl.artists[i]).exists
                        => ~skipped_without_force(pl'.cards_dir, pl.artists[i])]_vars


\* the catalog searches sent so far by the running call of get_spotify_metadata
SearchRequests == {i \in DOMAIN pl.calls : pl.calls[i] = "spotify"}

\* C14: when a catalog search answers 401, get_spotify_metadata re-authenticates
\* and retries the search once: within one call at most two search requests
\* are sent, even when the service keeps answering 401 and re-authentication
\* keeps succeeding.
C14_AtMostTwoSearches ==
    Cardinality(SearchRequests) <= 2


\* the statuses of a failed catalog, research or write stage
StageFailures == {"Spotify not found", "Perplexity research failed", "Failed to write card"}

\* C15: in process_artist the stages are ordered and gated: the research
\* service is called only after the catalog lookup returned metadata, the card
\* is written only after research succeeded, and the ledger entry is set only
\* by the step that wrote the card; a failure of the catalog, research or write
\* stage returns an error status, increments stats.errors by exactly 1, and
\* leaves the card file and the ledger entry of the artist unchanged.
C15_StagesGated ==
    /\ [](pl.pc \in InProcessArtist
            => /\ \A i \in DOMAIN pl.calls :
                     pl.calls[i] = "perplexity"
                        => \E j \in 1..(i - 1) : pl.calls[j] = "spotify"
               /\ pl.pc = "write" /\ ~pl.dry_run
                     => pl.calls[Len(pl.calls)] = "perplexity"
               /\ (pl.pc = "artist_returned" /\ pl.status \in StageFailures)
                     => /\ pl.stats = Bump(pl.pre.stats, "errors")
                        /\ pl.cards_dir = pl.pre.cards_dir
                        /\ pl.connections_db = pl.pre.connections_db)
    /\ [][/\ pl'.cards_dir # pl.cards_dir => pl.pc = "write"
          /\ pl'.connections_db # pl.connections_db
                => pl.pc = "write" /\ pl'.status \in {"Created", "Enhanced"}]_vars


\* the encyclopedia stage of the running call has been passed and gave nothing
LookupYieldedNothing ==
    /\ pl.pc \in InProcessArtist
    /\ \E i \in DOMAIN pl.calls : pl.calls[i] = "musicbrainz"
    /\ ~pl.musicbrainz_data.found

\* C16: if the encyclopedia lookup yields nothing, process_artist goes on to
\* the research call without counting an error; it returns an error only for a
\* failure of a later stage (research, an exception, the write), and otherwise
\* returns created/enhanced with a card that has no encyclopedia field.
C16_LookupFailureNotFatal ==
    LookupYieldedNothing
    => /\ pl.pc # "musicbrainz"
       /\ pl.pc # "artist_returned" => pl.stats = pl.pre.stats
       /\ pl.pc \in {"build", "write", "artist_returned"} /\ ~pl.dry_run
             => \E i \in DOMAIN pl.calls : pl.calls[i] = "perplexity"
       /\ pl.pc = "artist_returned"
             => \/ pl.status \in {"Perplexity research failed", "Error", "Failed to write card"}
                \/ /\ pl.status = (IF pl.exists THEN "Enhanced" ELSE "Created")
                   /\ pl.stats.errors = pl.pre.stats.errors
                   /\ ~pl.dry_run
                         => pl.cards_dir[sanitize_filename(CurrentArtist)] = ENHANCED

\* a card is created for an artist the encyclopedia does not know
C16_Witness ==
    /\ LookupYieldedNothing
    /\ pl.pc = "artist_returned"
    /\ pl.status = "Created"
    /\ ~pl.dry_run
    /\ pl.calls = <<"spotify", "musicbrainz", "perplexity">>
    /\ pl.cards_dir[sanitize_filename(CurrentArtist)].musicbrainz_id = ""


\* C17: every request to the encyclopedia service is followed by a sleep of at
\* least 1.0 s before the next request to it is sent, also across consecutive
\* cards and when a lookup finds no confident match: no request of a run is
\* sent before the pause is over.
C17_RequestsSpaced ==
    ~bf.hasty


(***************************************************************************)
(* The card builder: build_artist_card, lines 1110-1443, as far as the     *)
(* entity classification, the location and the dates go.  musicbrainz_data *)
(* is the metadata of the lookup, every key the dict lacks being empty;    *)
(* perplexity_data holds the location text and the entity_type guess of    *)
(* the research.  The result holds the classification, the location, the   *)
(* front-matter fields ("" for a key that is not written) and the Born,    *)
(* Origin and Died bullets of Quick Info ("" for a bullet that is not).    *)
(***************************************************************************)
BAND == <<"b","a","n","d">>

ORCHESTRA == <<"O","r","c","h","e","s","t","r","a">>

\* lines 1144-1153
classify_entity(mb_artist_type, mb_members, entity_type) ==
    IF mb_artist_type # <<>>
    THEN IF contains(mb_artist_type, lower(PERSON)) THEN "individual"
         ELSE IF contains(mb_artist_type, lower(GROUP)) \/ contains(mb_artist_type, BAND)
         THEN "group"
         ELSE entity_type
    ELSE IF mb_members # <<>> THEN "group"
    ELSE entity_type

\* lines 1155-1159
merge_location(mb_origin, mb_country, location_full) ==
    IF mb_origin # "" THEN mb_origin
    ELSE IF mb_country # "" /\ location_full = "" THEN mb_country
    ELSE location_full

\* lines 1252-1273: the Born, Origin and Died bullets
quick_info(entity_type, location_full, mb_birth_date, mb_death_date, mb_members) ==
    LET born_dated == mb_birth_date \o ", " \o location_full
        as_born == IF entity_type = "individual" THEN TRUE
                   ELSE IF entity_type \in {"band", "group"} THEN FALSE
                   ELSE mb_birth_date # "" /\ mb_members = <<>>
    IN  [born |-> IF location_full = "" \/ ~as_born THEN ""
                  ELSE IF mb_birth_date # "" THEN born_dated ELSE location_full,
         origin |-> IF location_full = "" \/ as_born THEN "" ELSE location_full,
         died |-> mb_death_date]

build_artist_card(musicbrainz_data, perplexity_data) ==
    LET mb_artist_type == lower(musicbrainz_data.artist_type)
        entity_type == classify_entity(mb_artist_type, musicbrainz_data.members,
                                       perplexity_data.entity_type)
        location_full == merge_location(musicbrainz_data.origin, musicbrainz_data.country,
                                        perplexity_data.location_full)
    IN  [entity_type |-> entity_type,
         location_full |-> location_full,
         frontmatter |->
             [enhancement_provider |-> "perplexity",
              musicbrainz_id |-> musicbrainz_data.mbid,
              birth_date |-> musicbrainz_data.birth_date,
              death_date |-> musicbrainz_data.death_date,
              artist_type |-> mb_artist_type,
              members |-> musicbrainz_data.members,
              birth_place |-> IF entity_type = "individual" THEN location_full ELSE "",
              origin |-> IF entity_type \in {"band", "group"} THEN location_full ELSE ""],
         quick_info |-> quick_info(entity_type, location_full, musicbrainz_data.birth_date,
                                   musicbrainz_data.death_date, musicbrainz_data.members)]

\* process_artist, lines 1506-1510: a lookup without result is an empty dict
EmptyMetadata ==
    [mbid |-> "", artist_type |-> <<>>, birth_date |-> "", death_date |-> "",
     origin |-> "", country |-> "", members |-> <<>>]

\* metadata as get_musicbrainz_metadata returns it: a death date for a person
\* only (line 531), members for another type only (lines 581-584)
MusicBrainzData ==
    {EmptyMetadata} \cup
    {m \in [mbid : {"mbid-1"}, artist_type : {<<>>, PERSON, GROUP, ORCHESTRA},
            birth_date : {"", "1918"}, death_date : {"", "1980"},
            origin : {"", "New Orleans"}, country : {"", "United States"},
            members : {<<>>, <<"Art">>}] :
        /\ m.death_date # "" => lower(m.artist_type) = lower(PERSON)
        /\ m.members # <<>> => lower(m.artist_type) # lower(PERSON)}

\* what the research says of the place and of the kind of entity
PerplexityData ==
    [location_full : {"", "Memphis"}, entity_type : {"individual", "group", "duo"}]

CallBuildArtistCard ==
    /\ call.fn = "none"
    /\ \E musicbrainz_data \in MusicBrainzData, perplexity_data \in PerplexityData :
          call' = [fn |-> "build_artist_card", musicbrainz_data |-> musicbrainz_data,
                   perplexity_data |-> perplexity_data,
                   ret |-> build_artist_card(musicbrainz_data, perplexity_data)]
    /\ UNCHANGED <<mb, bf, pl>>

CardInit ==
    /\ call = [fn |-> "none"]
    /\ mb = [state |-> "unused"]
    /\ bf = [state |-> "unused"]
    /\ pl = [state |-> "unused"]

CardNext == CallBuildArtistCard

CardSpec == CardInit /\ [][CardNext]_vars

\* the location that the stated priority gives: the encyclopedia origin, else
\* the encyclopedia country, else the text of the research
ByStatedPriority(musicbrainz_data, perplexity_data) ==
    IF musicbrainz_data.origin # "" THEN musicbrainz_data.origin
    ELSE IF musicbrainz_data.country # "" THEN musicbrainz_data.country
    ELSE perplexity_data.location_full

\* C18: in build_artist_card the location written as birth_place/origin is
\* chosen by strict priority: the encyclopedia origin if it is non-empty,
\* otherwise the encyclopedia country if it is non-empty, otherwise the
\* research-provided location text.
C18_LocationPriority ==
    call.fn = "build_artist_card"
    => \A field \in {"birth_place", "origin"} :
          call.ret.frontmatter[field] # ""
             => call.ret.frontmatter[field]
                    = ByStatedPriority(call.musicbrainz_data, call.perplexity_data)


\* C19: in build_artist_card the entity classification is decided by the
\* encyclopedia type whenever that type is non-empty, whatever its value (the
\* guess of the research and the member list then make no difference);
\* otherwise it is 'group' when the encyclopedia member list is non-empty;
\* otherwise it is the research service's entity_type guess.
C19_TypeDecides ==
    call.fn = "build_artist_card"
    => IF call.musicbrainz_data.artist_type # <<>>
       THEN \A other \in MusicBrainzData, guess \in PerplexityData :
               other.artist_type = call.musicbrainz_data.artist_type
                  => build_artist_card(other, guess).entity_type = call.ret.entity_type
       ELSE IF call.musicbrainz_data.members # <<>>
       THEN call.ret.entity_type = "group"
       ELSE call.ret.entity_type = call.perplexity_data.entity_type


(***************************************************************************)
(* From the lookup to the card: the metadata of get_musicbrainz_metadata   *)
(* goes into build_artist_card (pipeline) or into                          *)
(* merge_musicbrainz_into_card and update_quick_info (backfill).  The      *)
(* lookup is the one of MatchSpec, for one name.                           *)
(***************************************************************************)
\* the metadata as build_artist_card receives it: process_artist turns None
\* into an empty dict (lines 1506-1510); the detail of the model has no area
\* and no relation
as_musicbrainz_data(metadata) ==
    IF metadata.found
    THEN [EmptyMetadata EXCEPT !.mbid = metadata.mbid, !.artist_type = metadata.artist_type,
                               !.birth_date = metadata.birth_date,
                               !.death_date = metadata.death_date]
    ELSE EmptyMetadata

\* a value of the metadata as a front-matter value
as_value(text) == IF text = "" THEN <<>> ELSE <<text>>

\* the metadata as merge_musicbrainz_into_card receives it
as_mb_data(metadata) ==
    [f \in MetadataFields |->
        IF f = "mbid" THEN as_value(metadata.mbid)
        ELSE IF f = "artist_type"
        THEN (IF metadata.artist_type = PERSON THEN <<"Person">>
              ELSE IF metadata.artist_type = GROUP THEN <<"Group">>
              ELSE <<>>)
        ELSE IF f = "birth_date" THEN as_value(metadata.birth_date)
        ELSE IF f = "death_date" THEN as_value(metadata.death_date)
        ELSE <<>>]

\* update_quick_info, lines 632-635: the Died bullet (died is the one the card
\* has, <<>> if it has none)
update_died(died, mb_data) ==
    IF mb_data["death_date"] # <<>> /\ died = <<>> THEN mb_data["death_date"] ELSE died

\* process_artist, lines 1502-1545: the card is built from the metadata
BuildFromMetadata ==
    /\ mb.pc = "done"
    /\ mb.tool = "pipeline"
    /\ call.fn = "none"
    /\ LET musicbrainz_data == as_musicbrainz_data(mb.metadata)
           perplexity_data == [location_full |-> "Memphis", entity_type |-> "individual"]
       IN  call' = [fn |-> "build_artist_card", musicbrainz_data |-> musicbrainz_data,
                    perplexity_data |-> perplexity_data,
                    ret |-> build_artist_card(musicbrainz_data, perplexity_data)]
    /\ UNCHANGED <<mb, bf, pl>>

\* process_card, lines 795-803: the metadata is merged into a card without
\* dates, or (with --force) into one that has a death date and its bullet
MergeFromMetadata ==
    /\ mb.pc = "done"
    /\ mb.tool = "backfill"
    /\ mb.metadata.found
    /\ call.fn = "none"
    /\ \E preset \in {{}, {"death_date"}} :
          LET frontmatter == CardWith(preset)
              died == frontmatter["death_date"]
              mb_data == as_mb_data(mb.metadata)
          IN  call' = [fn |-> "merge_musicbrainz_into_card", frontmatter |-> frontmatter,
                       died |-> died, mb_data |-> mb_data,
                       ret |-> [frontmatter |->
                                    merge_musicbrainz_into_card(frontmatter, mb_data, NOW),
                                died |-> update_died(died, mb_data)]]
    /\ UNCHANGED <<mb, bf, pl>>

LookupInit ==
    /\ \E tool \in Tools :
          mb = [tool |-> tool, artist_name |-> <<"a">>, spotify_genres |-> <<>>,
                pc |-> "search", artist_list |-> <<>>, best_match |-> None,
                confidence |-> 0, match_result |-> None,
                detail |-> [error |-> TRUE, type |-> <<>>, begin |-> "", end |-> ""],
                metadata |-> None]
    /\ call = [fn |-> "none"]
    /\ bf = [state |-> "unused"]
    /\ pl = [state |-> "unused"]

LookupNext ==
    \/ FindBestMatch
    \/ ReturnNoMetadata
    \/ GetArtistById
    \/ BuildFromMetadata
    \/ MergeFromMetadata

LookupSpec == LookupInit /\ [][LookupNext]_vars

\* the matched entity is not a person (or there is no metadata at all)
NotAPerson == mb.metadata.found => lower(mb.metadata.artist_type) # lower(PERSON)

\* C20: get_musicbrainz_metadata (pipeline and backfill) sets death_date only
\* when the matched entity's type is person; for any other type a life-span
\* end date never becomes death_date, so the card built from that metadata has
\* no death_date field and no Died bullet, and the card merged from it gets
\* none that it did not have.
C20_DeathDateForPersonsOnly ==
    /\ mb.metadata.found
          => mb.metadata.death_date
                 = (IF lower(mb.detail.type) = lower(PERSON) THEN mb.detail.end ELSE "")
    /\ (call.fn = "build_artist_card" /\ NotAPerson)
          => /\ call.ret.frontmatter.death_date = ""
             /\ call.ret.quick_info.died = ""
    /\ (call.fn = "merge_musicbrainz_into_card" /\ NotAPerson)
          => /\ call.ret.frontmatter["death_date"] = call.frontmatter["death_date"]
             /\ call.ret.died = call.died

\* a group that ended in 1980: its card has no death date and no Died bullet
C20_Witness ==
    /\ mb.metadata.found
    /\ mb.detail.type = GROUP
    /\ mb.detail.end = "1980"
    /\ mb.metadata.death_date = ""
    /\ call.fn = "build_artist_card"
    /\ call.ret.frontmatter.death_date = ""
    /\ call.ret.quick_info.died = ""


(***************************************************************************)
(* Claims about parse_member_relationships (checked under TextSpec).       *)
(***************************************************************************)
\* the relations that name a band member
NamedMembers(relations) ==
    SelectSeq(relations, LAMBDA rel : rel.type = "member of band" /\ rel.name # "")

MemberInfos(relations) == [i \in DOMAIN relations |-> member_info(relations[i])]

\* the founding-member test as stated: the attributes mention "founder" or
\* "original", or the relation has a begin date and no end date
StatedOriginal(rel) ==
    \/ \E i \in DOMAIN rel.attributes :
          \/ contains(lower(rel.attributes[i]), FOUNDER)
          \/ contains(lower(rel.attributes[i]), ORIGINAL)
    \/ (rel.begin # "" /\ rel.end = "")

\* C21: for a non-person entity parse_member_relationships lists every named
\* "member of band" relation exactly once in members and puts it in
\* original_members if and only if its attributes mention "founder" or
\* "original" or it has a begin date and no end date; for a person the
\* relations are returned as they are and original_members is empty.
C21_OriginalMembers ==
    call.fn = "parse_member_relationships" =>
        /\ call.ret.members = MemberInfos(NamedMembers(call.relations))
        /\ call.ret.original_members =
              IF call.artist_type = PERSON THEN <<>>
              ELSE MemberInfos(SelectSeq(NamedMembers(call.relations), StatedOriginal))


(***************************************************************************)
(* Claims about the choice of the candidate (checked under MatchSpec).     *)
(***************************************************************************)
\* the candidates considered: those named as the search name, case aside, if any
Considered(artist_list, artist_name) ==
    LET exact == SelectSeq(artist_list, LAMBDA a : lower(a.name) = lower(artist_name))
    IN  IF exact # <<>> THEN exact ELSE artist_list

\* 2 per hint word found in the disambiguation, +1 for a disambiguation,
\* +1 for the type person, group or band
StatedRelevance(artist, hints) ==
    LET hint_words == UNION {Range(words(lower(hints[i]))) : i \in DOMAIN hints}
    IN  2 * Cardinality({w \in hint_words : contains(lower(artist.disambiguation), w)})
        + (IF artist.disambiguation # <<>> THEN 1 ELSE 0)
        + (IF lower(artist.type) \in {lower(PERSON), lower(GROUP), BAND} THEN 1 ELSE 0)

\* the first candidate of the highest relevance
FirstOfHighest(candidates, hints) ==
    LET highest == SetMax({StatedRelevance(candidates[i], hints) : i \in DOMAIN candidates})
    IN  candidates[SetMin({i \in DOMAIN candidates :
                              StatedRelevance(candidates[i], hints) = highest})]

\* C22: find_best_musicbrainz_match considers only the candidates named as the
\* search name (case-insensitively) if there are any; if more than one
\* candidate remains and genre hints are supplied it selects the candidate of
\* the highest relevance score, the first such candidate in the original
\* order on a tie or when every score is zero; otherwise it selects the first
\* candidate considered.
C22_CandidateSelection ==
    mb.best_match.found =>
        LET candidates == Considered(mb.artist_list, mb.artist_name)
        IN  mb.best_match.artist =
                IF Len(candidates) > 1 /\ mb.spotify_genres # <<>>
                THEN FirstOfHighest(candidates, mb.spotify_genres)
                ELSE candidates[1]

\* two different candidates of the highest relevance, both named as the
\* search name: the first of them is selected
C22_Witness ==
    /\ mb.best_match.found
    /\ Len(mb.artist_list) = 2
    /\ mb.spotify_genres # <<>>
    /\ \A i \in 1..2 : lower(mb.artist_list[i].name) = lower(mb.artist_name)
    /\ mb.artist_list[1] # mb.artist_list[2]
    /\ StatedRelevance(mb.artist_list[1], mb.spotify_genres) > 0
    /\ StatedRelevance(mb.artist_list[1], mb.spotify_genres)
          = StatedRelevance(mb.artist_list[2], mb.spotify_genres)
    /\ mb.best_match.artist = mb.artist_list[1]


(***************************************************************************)
(* Claims about the classification of an artist (checked under             *)
(* PipelineSpec).  pl.pre is the state in which process_artist was         *)
(* entered.                                                                *)
(***************************************************************************)
\* the card at the artist's sanitized filename existed when process_artist
\* was entered
HadCard == sanitize_filename(CurrentArtist) \in DOMAIN pl.pre.cards_dir

\* when process_artist was entered, force was not set and the artist had no
\* card (under no variant of the filename either) or a card without the flag
EnteredNeedingEnhancement ==
    /\ pl.pc \in InProcessArtist
    /\ ~pl.force
    /\ IF HadCard
       THEN ~(/\ pl.pre.cards_dir[sanitize_filename(CurrentArtist)].parsable
              /\ pl.pre.cards_dir[sanitize_filename(CurrentArtist)].enhancement_provider
                    = "perplexity")
       ELSE \A existing_file \in DOMAIN pl.pre.cards_dir :
               alphanumeric(existing_file) # alphanumeric(sanitize_filename(CurrentArtist))

\* the requests sent so far are catalog searches followed by later
\* (the research request is not sent in a dry run, which uses the mock)
CallsAre(later) ==
    /\ pl.calls # <<>>
    /\ pl.calls[1] = "spotify"
    /\ SelectSeq(pl.calls, LAMBDA c : c # "spotify") = later
    /\ \A i \in DOMAIN pl.calls :
          pl.calls[i] = "spotify" => \A j \in 1..i : pl.calls[j] = "spotify"

AllStagesCalled ==
    CallsAre(IF pl.dry_run THEN <<"musicbrainz">> ELSE <<"musicbrainz", "perplexity">>)

\* process_artist has not returned a skip status, and the requests it has
\* sent are those of the stages before its position, in order
StagesInOrder ==
    /\ pl.pc = "artist_returned"
          => pl.status \notin {"Duplicate", "Already enhanced with Perplexity"}
    /\ pl.pc = "spotify" => \A i \in DOMAIN pl.calls : pl.calls[i] = "spotify"
    /\ pl.pc = "musicbrainz" => CallsAre(<<>>)
    /\ pl.pc = "research" => CallsAre(<<"musicbrainz">>)
    /\ pl.pc \in {"build", "write"} => AllStagesCalled
    /\ (pl.pc = "artist_returned" /\ pl.status \in {"Created", "Enhanced"})
          => AllStagesCalled

\* C23: without force, for an artist with no card or with a card that lacks the
\* enhancement_provider flag, process_artist runs the stages in order (catalog,
\* encyclopedia, research, build, write) and skips nothing; when every stage
\* succeeds the written card carries enhancement_provider = perplexity and the
\* artist is counted as created if no card existed and as enhanced if one did.
C23_NeedsEnhancementRuns ==
    EnteredNeedingEnhancement
    => /\ StagesInOrder
       /\ (pl.pc = "artist_returned" /\ pl.status \in {"Created", "Enhanced"})
             => /\ AllStagesCalled
                /\ ~pl.dry_run =>
                      /\ sanitize_filename(CurrentArtist) \in DOMAIN pl.cards_dir
                      /\ pl.cards_dir[sanitize_filename(CurrentArtist)].enhancement_provider
                            = "perplexity"
                /\ pl.status = (IF HadCard THEN "Enhanced" ELSE "Created")
                /\ pl.stats.enhanced = pl.pre.stats.enhanced + (IF HadCard THEN 1 ELSE 0)
                /\ pl.stats.created = pl.pre.stats.created + (IF HadCard THEN 0 ELSE 1)
                /\ \A c \in {"skipped_perplexity", "skipped_duplicate", "errors"} :
                      pl.stats[c] = pl.pre.stats[c]

\* a card without the flag has been enhanced
C23_Witness ==
    /\ EnteredNeedingEnhancement
    /\ HadCard
    /\ pl.pre.cards_dir[sanitize_filename(CurrentArtist)].parsable
    /\ ~pl.dry_run
    /\ pl.pc = "artist_returned"
    /\ pl.status = "Enhanced"
    /\ pl.cards_dir[sanitize_filename(CurrentArtist)].enhancement_provider = "perplexity"


\* when process_artist was entered, no card had the artist's sanitized
\* filename but a card had a filename with the same letters and digits
EnteredOnVariant ==
    /\ pl.pc \in InProcessArtist
    /\ ~HadCard
    /\ \E existing_file \in DOMAIN pl.pre.cards_dir :
          alphanumeric(existing_file) = alphanumeric(sanitize_filename(CurrentArtist))

\* C24: an artist whose sanitized filename does not exist but whose
\* alphanumeric-only normalized name equals that of an existing card file is a
\* duplicate: without force process_artist makes no external call, writes
\* nothing, increments only skipped_duplicate and returns the duplicate status;
\* with force neither the duplicate nor the already-enhanced check stops the
\* artist, and the stages run in order.
C24_DuplicateSkipped ==
    /\ (EnteredOnVariant /\ ~pl.force)
          => /\ pl.pc = "artist_returned"
             /\ pl.calls = <<>>
             /\ pl.cards_dir = pl.pre.cards_dir
             /\ pl.connections_db = pl.pre.connections_db
             /\ pl.connections_file = pl.pre.connections_file
             /\ pl.stats = Bump(pl.pre.stats, "skipped_duplicate")
             /\ pl.status = "Duplicate"
    /\ (pl.pc \in InProcessArtist /\ pl.force) => StagesInOrder

\* the second name of the archive is a variant of the first, whose card was
\* created in this run
C24_Witness ==
    /\ EnteredOnVariant
    /\ ~pl.force
    /\ pl.idx = 2
    /\ pl.pc = "artist_returned"
    /\ pl.status = "Duplicate"
    /\ pl.stats.created = 1
    /\ pl.stats.skipped_duplicate = 1


(***************************************************************************)
(* Claims about the statistics (checked under PipelineSpec).               *)
(***************************************************************************)
OutcomeCounters == {"created", "enhanced", "skipped_perplexity", "skipped_duplicate", "errors"}

\* created + enhanced + skipped_perplexity + skipped_duplicate + errors
Outcomes(stats) ==
    stats.created + stats.enhanced + stats.skipped_perplexity + stats.skipped_duplicate
    + stats.errors

\* C25: every call of process_artist increments exactly one of the counters
\* created, enhanced, skipped_perplexity, skipped_duplicate and errors, by
\* exactly 1; so after each iteration of the loop of process_archive
\* processed = created + enhanced + skipped_perplexity + skipped_duplicate
\* + errors, and processed <= total.
C25_OneCounterPerArtist ==
    /\ pl.pc = "artist_returned"
          => \E counter \in OutcomeCounters :
                /\ pl.stats[counter] = pl.pre.stats[counter] + 1
                /\ \A other \in OutcomeCounters \ {counter} :
                      pl.stats[other] = pl.pre.stats[other]
    /\ pl.pc \in {"spotify", "musicbrainz", "research", "build", "write"}
          => \A counter \in OutcomeCounters : pl.stats[counter] = pl.pre.stats[counter]
    /\ pl.pc \in {"loop", "done"}
          => /\ pl.stats.processed = Outcomes(pl.stats)
             /\ pl.stats.processed <= pl.stats.total

\* two iterations, each counted once under a different counter
C25_Witness ==
    /\ pl.pc = "loop"
    /\ pl.stats.processed = 2
    /\ pl.stats.errors = 1
    /\ pl.stats.enhanced = 1


(***************************************************************************)
(* Claims about the evidence behind an accepted match (checked under       *)
(* MatchSpec).                                                             *)
(***************************************************************************)
\* the distinct hint words that occur in the disambiguation
HintWordsFound(disambiguation, hints) ==
    {w \in UNION {Range(words(lower(hints[i]))) : i \in DOMAIN hints} :
        contains(lower(disambiguation), w)}

\* C26: for ext:score in 0..100, a candidate whose name neither equals the
\* search name nor contains it nor is contained in it has a confidence of at
\* most 60 and is never accepted; a candidate with only a substring name match
\* is accepted only when its ext:score is 100 and at least four distinct hint
\* words occur in its disambiguation; an exact-name candidate with no genre
\* corroboration is accepted only when its ext:score is 100.
C26_NameEvidence ==
    (mb.best_match.found /\ mb.best_match.artist.ext_score \in 0..100)
    => LET artist == mb.best_match.artist
           n == RefNamePoints(artist.name, mb.artist_name)
           found == HintWordsFound(artist.disambiguation, mb.spotify_genres)
       IN  /\ n = 0 => (mb.confidence <= 60 /\ ~mb.match_result.found)
           /\ (n = 20 /\ mb.match_result.found)
                 => (artist.ext_score = 100 /\ Cardinality(found) >= 4)
           /\ (n = 40 /\ found = {} /\ mb.match_result.found) => artist.ext_score = 100

\* a candidate whose name is part of the search name, accepted on rank score
\* 100 and five hint words
C26_Witness ==
    /\ mb.match_result.found
    /\ mb.match_result.artist.ext_score = 100
    /\ RefNamePoints(mb.match_result.artist.name, mb.artist_name) = 20
    /\ Cardinality(HintWordsFound(mb.match_result.artist.disambiguation,
                                  mb.spotify_genres)) >= 4
    /\ mb.confidence = 80


(***************************************************************************)
(* Claims about repeated names within one run (checked under               *)
(* PipelineSpec).                                                          *)
(***************************************************************************)
\* a card of this run has the letters and digits of the artist's filename
WrittenBefore ==
    \E i \in DOMAIN pl.written :
        alphanumeric(pl.written[i]) = alphanumeric(sanitize_filename(CurrentArtist))

\* C27: within one run without force and without dry-run, once an artist's card
\* has been written, every later occurrence of a name with the same
\* alphanumeric-normalized filename is skipped without a research call, so at
\* most one research-and-write succeeds per normalized name per run.
C27_OneResearchPerName ==
    (~pl.force /\ ~pl.dry_run)
    => /\ \A i, j \in DOMAIN pl.written :
             alphanumeric(pl.written[i]) = alphanumeric(pl.written[j]) => i = j
       /\ pl.pc \in {"spotify", "musicbrainz", "research", "build", "write"}
             => ~WrittenBefore


\* no two card files have the same letters and digits in their names
DistinctNormalizedStems(cards_dir) ==
    \A a, b \in DOMAIN cards_dir : alphanumeric(a) = alphanumeric(b) => a = b

\* C28: if at first no two card files have the same alphanumeric-only
\* normalized stem, then after any sequence of process_artist calls without
\* force no two card files have the same normalized stem: a call only
\* overwrites the card at an existing exact filename or creates a card whose
\* normalized stem matches no existing file.
C28_NoVariantFiles ==
    ~pl.force
    => /\ DistinctNormalizedStems(pl.cards_dir)
       /\ \A created \in DOMAIN pl.cards_dir \ DOMAIN pl.pre.cards_dir :
             \A existing_file \in DOMAIN pl.pre.cards_dir :
                alphanumeric(existing_file) # alphanumeric(created)

\* the archive names an artist under two spellings: one card at the end
C28_Witness ==
    /\ ~pl.force
    /\ ~pl.dry_run
    /\ pl.pc = "done"
    /\ Len(pl.invoked) = 2
    /\ pl.invoked[1] # pl.invoked[2]
    /\ pl.stats.created = 1
    /\ Cardinality(DOMAIN pl.cards_dir) = 1


(***************************************************************************)
(* Claims about the ledger (checked under InvocationSpec).                 *)
(***************************************************************************)
\* the artists for whom this run has written a card after a research with a
\* non-empty connections map
Researched == {pl.researched[i].artist : i \in DOMAIN pl.researched}

\* the names the last such research gave for artist
LastNames(artist) ==
    pl.researched[SetMax({i \in DOMAIN pl.researched : pl.researched[i].artist = artist})].names

\* C29: the ledger file is written at most once per run, after the last
\* artist has been processed, and not before the artist loop ends; when a
\* non-dry run has completed and saved the ledger, the file holds for every
\* artist created or enhanced in the run with a non-empty connections map an
\* entry with the names of that run, and the entries of all other artists
\* loaded at start-up unchanged.
C29_LedgerWrittenAtEnd ==
    /\ pl.pc # "done"
          => (pl.connections_file = pl.ledger_at_start /\ pl.saved = "no")
    /\ pl.saved \in {"no", "dry run", "not opened"}
          => pl.connections_file = pl.ledger_at_start
    /\ pl.saved = "saved"
          => /\ pl.pc = "done"
             /\ pl.idx = Len(pl.artists) + 1
             /\ ~pl.dry_run
             /\ DOMAIN pl.connections_file = DOMAIN pl.ledger_at_start \cup Researched
             /\ \A artist \in DOMAIN pl.connections_file :
                   pl.connections_file[artist] =
                       IF artist \in Researched THEN LastNames(artist)
                       ELSE pl.ledger_at_start[artist]

\* the entry of an artist enhanced in this run has changed, the entry of
\* another artist has not
C29_Witness ==
    /\ pl.pc = "done"
    /\ pl.saved = "saved"
    /\ pl.ledger_at_start = EarlierLedger
    /\ pl.stats.enhanced = 1
    /\ pl.connections_file[DRJ] # EarlierLedger[DRJ]
    /\ pl.connections_file[ZED] = EarlierLedger[ZED]


(***************************************************************************)
(* Claims about later runs of the backfill (checked under BackfillSpec).   *)
(***************************************************************************)
\* C30: the backfill is idempotent per card: once process_card has updated a
\* card in a run that was no dry run, the front matter of the card holds a
\* musicbrainz_id, and a later run without force classifies the card as
\* already enriched, sends no encyclopedia request for it and leaves the
\* file unchanged.
C30_BackfillIdempotent ==
    /\ [](bf.card.updated => bf.card.frontmatter["musicbrainz_id"] # <<>>)
    /\ [][(bf.pc = "card" /\ bf.card.updated /\ ~bf.force)
             => /\ bf'.status = "Already has MB data"
                /\ bf'.lookups = bf.lookups
                /\ bf'.card = bf.card]_vars

=============================================================================
